---------------------------- MODULE Spec2Model ----------------------------
(***************************************************************************)
(* A model of ticktick-mcp: the response size governor of the tool-call    *)
(* surface (server.py, tools/formatting.py), the on-disk session cache of  *)
(* the command-line surface (fast_cli.py: load_auth_cache, save_auth_cache,*)
(* clear_auth_cache, get_api) and the CachedAPI facade verbs (fast_cli.py).*)
(*                                                                         *)
(* Three groups of variables, one per part; each specification moves one   *)
(* group and leaves the others alone.                                      *)
(***************************************************************************)
EXTENDS Integers, Sequences, FiniteSets, TLC

VARIABLES
    \* ---- response size governor (server.py) ----
    render,     \* the string a formatter produced for the current tool call
    response,   \* the string the tool call returned
    tool,       \* which tool action handled the call
    tphase,     \* "off" | "rendered" | "returned"
    \* ---- session cache (fast_cli.py) ----
    file,       \* the cache file AUTH_CACHE_FILE: existence, content, permissions
    umask,      \* the file-creation mask of the processes
    now,        \* time.time(), in seconds
    nticks,     \* how often the clock has been advanced
    nextTok,    \* the next session token the upstream login hands out
    revoked,    \* the session tokens the upstream no longer accepts
    proc,       \* per process: the command it runs and its locals
    rejected,   \* history: tokens a request failed with an authentication error on
    cleared,    \* history: tokens that were in the cache file when it was cleared
    \* ---- CachedAPI facade (fast_cli.py) and the upstream behind it ----
    upTasks,    \* the upstream's tasks: task id -> task
    upEnts,     \* the upstream's projects, folders, tags and columns: kind -> ids
    nextId,     \* the number of the next task id the upstream assigns
    nreq,       \* how many requests have been started
    req,        \* per request: the verb it runs, its locals and its upstream calls
    \* ---- listing the active tasks (fast_cli.py, server.py) ----
    sync,       \* the tasks of the full sync, in its order
    query,      \* the filter parameters of the listing
    limit,      \* its limit parameter, 0 when none is supplied
    surface,    \* which surface has answered: "cli", "tool" or "none" yet
    listed,     \* the tasks the listing returned
    needle,     \* the query of a search
    upcalls,    \* the upstream calls the listing or search has made
    \* ---- the two surfaces: one tool call (server.py), one command (fast_cli.py) ----
    tcall,      \* the tool call: tool, action, position, exception, response
    cmd         \* the command: handler, position, standard output, exit status

truncVars == <<render, response, tool, tphase>>

cacheVars == <<file, umask, now, nticks, nextTok, revoked, proc, rejected, cleared>>

facadeVars == <<upTasks, upEnts, nextId, nreq, req>>

listVars == <<sync, query, limit, surface, listed, needle, upcalls>>

surfVars == <<tcall, cmd>>

vars == <<truncVars, cacheVars, facadeVars, listVars, surfVars>>

\* what the actions of one part leave alone
notTrunc == <<cacheVars, facadeVars, listVars, surfVars>>

notCache == <<truncVars, facadeVars, listVars, surfVars>>

notFacade == <<truncVars, cacheVars, listVars, surfVars>>

notList == <<truncVars, cacheVars, facadeVars, surfVars>>

notSurf == <<truncVars, cacheVars, facadeVars, listVars>>

-----------------------------------------------------------------------------
(***************************************************************************)
(* Strings.  The strings the size governor handles are up to tens of       *)
(* thousands of characters long, so a string is kept run-length encoded: a *)
(* sequence of blocks [ch, n], n >= 1 copies of the character ch, adjacent *)
(* blocks holding different characters.  "a" stands for any character that *)
(* is not a line break, "\n" is the line break, "-" the hyphen; the block  *)
(* "T" is the text of the truncation notice after its "\n\n---\n" lead,    *)
(* NOTICE_TEXT_LEN characters that only occur whole.                       *)
(***************************************************************************)
NL == "\n"

Min(a, b) == IF a <= b THEN a ELSE b

SetMax(S) == CHOOSE x \in S : \A y \in S : y <= x

RECURSIVE SLen(_)
\* len(s)
SLen(s) == IF s = <<>> THEN 0 ELSE Head(s).n + SLen(Tail(s))

\* index of the first character of block k (0-based, as Python indexes)
Offset(s, k) == SLen(SubSeq(s, 1, k - 1))

RECURSIVE Norm(_)
\* the canonical encoding: empty blocks dropped, equal neighbours merged
Norm(s) ==
    IF s = <<>> THEN <<>>
    ELSE IF Head(s).n = 0 THEN Norm(Tail(s))
    ELSE IF Len(s) = 1 THEN s
    ELSE IF s[2].n = 0 THEN Norm(<<s[1]>> \o SubSeq(s, 3, Len(s)))
    ELSE IF s[1].ch = s[2].ch
         THEN Norm(<<[ch |-> s[1].ch, n |-> s[1].n + s[2].n]>> \o SubSeq(s, 3, Len(s)))
         ELSE <<s[1]>> \o Norm(Tail(s))

\* s + t
Concat(s, t) == Norm(s \o t)

RECURSIVE Take(_, _)
\* s[:k]
Take(s, k) ==
    IF k <= 0 \/ s = <<>> THEN <<>>
    ELSE IF Head(s).n <= k THEN <<Head(s)>> \o Take(Tail(s), k - Head(s).n)
    ELSE <<[ch |-> Head(s).ch, n |-> k]>>

RECURSIVE Drop(_, _)
\* s[k:]
Drop(s, k) ==
    IF s = <<>> THEN <<>>
    ELSE IF k <= 0 THEN s
    ELSE IF Head(s).n <= k THEN Drop(Tail(s), k - Head(s).n)
    ELSE <<[ch |-> Head(s).ch, n |-> Head(s).n - k]>> \o Tail(s)

\* s.find("\n" * w, 0, end): the lowest index instead of the highest
find(s, w, end) ==
    LET stop == IF end <= SLen(s) THEN end ELSE SLen(s)
        hits == { Offset(s, k) :
                    k \in { j \in 1..Len(s) :
                              /\ s[j].ch = NL
                              /\ s[j].n >= w
                              /\ Offset(s, j) + w <= stop } }
    IN  IF hits = {} THEN -1 ELSE CHOOSE x \in hits : \A y \in hits : x <= y

\* s.rfind("\n" * w, 0, end): the highest index i with i + w <= min(end, len(s))
\* at which w line breaks start, -1 when there is none
rfind(s, w, end) ==
    LET stop == Min(end, SLen(s))
        hits == { Min(Offset(s, k) + s[k].n - w, stop - w) :
                    k \in { j \in 1..Len(s) :
                              /\ s[j].ch = NL
                              /\ s[j].n >= w
                              /\ Offset(s, j) + w <= stop } }
    IN  IF hits = {} THEN -1 ELSE SetMax(hits)

\* p is a prefix of s: every block of p lies over blocks of s with its character
IsPrefix(p, s) ==
    /\ SLen(p) <= SLen(s)
    /\ \A j \in 1..Len(p) : \A k \in 1..Len(s) :
          (/\ Offset(s, k) < Offset(p, j) + p[j].n
           /\ Offset(p, j) < Offset(s, k) + s[k].n) => s[k].ch = p[j].ch

\* s ends with t
EndsWith(s, t) ==
    /\ SLen(t) <= SLen(s)
    /\ Drop(s, SLen(s) - SLen(t)) = Norm(t)

-----------------------------------------------------------------------------
(***************************************************************************)
(* The size governor.                                                      *)
(***************************************************************************)
CHARACTER_LIMIT == 25000

TRUNCATE_MARGIN == 500

NOTICE_TEXT_LEN == 54

\* the truncation notice of truncate_response
message ==
    << [ch |-> NL, n |-> 2], [ch |-> "-", n |-> 3], [ch |-> NL, n |-> 1],
       [ch |-> "T", n |-> NOTICE_TEXT_LEN] >>

\* truncate_response with the cut placed at the budget instead of the margin
truncate_response_at_limit(result) ==
    IF SLen(result) <= CHARACTER_LIMIT THEN result
    ELSE LET truncate_at == CHARACTER_LIMIT
             para == rfind(result, 2, truncate_at)
             line == IF para = -1 THEN rfind(result, 1, truncate_at) ELSE para
             truncate_point == IF line = -1 THEN truncate_at ELSE line
         IN  Concat(Take(result, truncate_point), message)

truncate_response(result) ==
    IF SLen(result) <= CHARACTER_LIMIT THEN result
    ELSE LET truncate_at == CHARACTER_LIMIT - TRUNCATE_MARGIN
             para == rfind(result, 2, truncate_at)
             line == IF para = -1 THEN rfind(result, 1, truncate_at) ELSE para
             truncate_point == IF line = -1 THEN truncate_at ELSE line
         IN  Concat(Take(result, truncate_point), message)


-----------------------------------------------------------------------------
(***************************************************************************)
(* The rendered strings a tool call may have to return: every string of at *)
(* most MaxBlocks runs of ordinary characters and line breaks, the runs'   *)
(* lengths taken around the budget and the margin.                         *)
(***************************************************************************)
MaxBlocks == 3

BlockLens ==
    { 1, 2, TRUNCATE_MARGIN,
      CHARACTER_LIMIT - TRUNCATE_MARGIN - 2,
      CHARACTER_LIMIT - TRUNCATE_MARGIN - 1,
      CHARACTER_LIMIT }

Blocks == [ch : {"a", NL}, n : BlockLens]

Strings ==
    { s \in UNION { [1..k -> Blocks] : k \in 0..MaxBlocks } :
        \A i \in 1..(Len(s) - 1) : s[i].ch # s[i + 1].ch }

\* the tools whose actions return the formatter's string as it is
OtherTools == {"projects", "folders", "tags", "habits", "columns", "user", "focus"}

TruncStart ==
    /\ render \in Strings
    /\ response = <<>>
    /\ tool = "none"
    /\ tphase = "rendered"

\* the size governor at rest, in the specifications of the other parts
TruncOff ==
    /\ render = <<>>
    /\ response = <<>>
    /\ tool = "none"
    /\ tphase = "off"

\* ticktick_tasks, action "list": the only action that calls truncate_response
ticktick_tasks_list ==
    /\ tphase = "rendered"
    /\ response' = truncate_response(render)
    /\ tool' = "tasks.list"
    /\ tphase' = "returned"
    /\ UNCHANGED <<render, notTrunc>>

\* ticktick_tasks, action "search": the formatted list is returned as it is
ticktick_tasks_search ==
    /\ tphase = "rendered"
    /\ response' = render
    /\ tool' = "tasks.search"
    /\ tphase' = "returned"
    /\ UNCHANGED <<render, notTrunc>>

\* ticktick_tasks, action "get": the formatted task is returned as it is
ticktick_tasks_get ==
    /\ tphase = "rendered"
    /\ response' = render
    /\ tool' = "tasks.get"
    /\ tphase' = "returned"
    /\ UNCHANGED <<render, notTrunc>>

\* the actions of the other tools: the formatted string is returned as it is
ticktick_other(t) ==
    /\ tphase = "rendered"
    /\ response' = render
    /\ tool' = t
    /\ tphase' = "returned"
    /\ UNCHANGED <<render, notTrunc>>

TruncNext ==
    \/ ticktick_tasks_list
    \/ ticktick_tasks_search
    \/ ticktick_tasks_get
    \/ \E t \in OtherTools : ticktick_other(t)

-----------------------------------------------------------------------------
(***************************************************************************)
(* The session cache.  Every command of the command-line surface is its    *)
(* own process; the processes share the cache file and nothing else.  A    *)
(* process takes one step per system call or upstream call.                *)
(*                                                                         *)
(* A cached document {"v2_session": ..., "cached_at": ...} is a record     *)
(* [tok, at, ok, len]: the session token, cached_at, whether               *)
(* SessionToken.from_dict accepts the v2_session, and the length of the    *)
(* JSON text in units.  The file's content is a sequence of units          *)
(* [doc, i], unit i of the text of doc: two texts written over each other  *)
(* stay visible as what they are.                                          *)
(***************************************************************************)
SESSION_TTL == 86400

MaxLogins == 2

MaxTicks == 2

MaxDocLen == 2

Procs == {"p1", "p2"}

\* the clock at the start: some moment later than one TTL after the epoch
StartTime == 2 * SESSION_TTL

\* how far the clock may jump between two steps
TickSteps == {1, SESSION_TTL}

Tokens == 1..MaxLogins

NoDoc == [tok |-> 0, at |-> 0, ok |-> FALSE, len |-> 0]

\* a document whose v2_session SessionToken.from_dict rejects
LegacyDoc == [tok |-> 0, at |-> StartTime, ok |-> FALSE, len |-> 1]

\* json.dump(doc): the text of a document
Units(doc) == [i \in 1..doc.len |-> [doc |-> doc, i |-> i]]

\* json.load succeeds: the content is the whole text of one document
Parsable(content) ==
    /\ content # <<>>
    /\ content = Units(content[1].doc)

\* permissions, as sets of permission bits
AllRW == {"ur", "uw", "gr", "gw", "or", "ow"}

OwnerRW == {"ur", "uw"}

Umasks == { {"gw", "ow"}, {"gr", "gw", "or", "ow"} }

Absent == [exists |-> FALSE, content |-> <<>>, mode |-> {}]

\* the tokens whose text, or part of it, is in the file
TokensIn(f) == { f.content[i].doc.tok : i \in 1..Len(f.content) } \ {0}

\* the TTL test of load_auth_cache with >= for >
Expired_at_ttl(cached_at, t) == t - cached_at >= SESSION_TTL

\* load_auth_cache never expiring a document
Expired_never(cached_at, t) == FALSE

\* time.time() - cache.get("cached_at", 0) > SESSION_TTL
Expired(cached_at, t) == t - cached_at > SESSION_TTL

\* load_auth_cache from the open on: a missing file, unparsable JSON and an
\* expired document all give None
load_auth_cache(f, t) ==
    IF ~f.exists THEN NoDoc
    ELSE IF ~Parsable(f.content) THEN NoDoc
    ELSE IF Expired(f.content[1].doc.at, t) THEN NoDoc
    ELSE f.content[1].doc

\* open(AUTH_CACHE_FILE, "w") leaving the old content in place
open_w_keep(f, mask) ==
    IF f.exists THEN f
    ELSE [exists |-> TRUE, content |-> <<>>, mode |-> AllRW \ mask]

\* open(AUTH_CACHE_FILE, "w"): an existing file is truncated and keeps its
\* permissions, a missing one is created with 0666 minus the umask
open_w(f, mask) ==
    IF f.exists THEN [f EXCEPT !.content = <<>>]
    ELSE [exists |-> TRUE, content |-> <<>>, mode |-> AllRW \ mask]

\* the write of the whole text at the descriptor's offset 0 when the file is
\* closed: what lies beyond the text stays
write_at_0(content, doc) ==
    Units(doc) \o SubSeq(content, doc.len + 1, Len(content))

\* AUTH_CACHE_FILE.chmod(0o600)
chmod_600(f) == [f EXCEPT !.mode = OwnerRW]

\* clear_auth_cache leaving the file where it is
unlink_noop(f) == f

\* AUTH_CACHE_FILE.unlink()
unlink(f) == Absent

IdleProc ==
    [ pc      |-> "idle",     \* where the process is
      cmd     |-> "none",     \* "api": a command that calls get_api; "clear": auth clear
      creds   |-> FALSE,      \* TICKTICK_USERNAME and TICKTICK_PASSWORD are set
      cache   |-> NoDoc,      \* what load_auth_cache returned
      session |-> 0,          \* the session of the v2 client
      newdoc  |-> NoDoc,      \* the document save_auth_cache writes
      fd      |-> "none",     \* the descriptor of save_auth_cache: "none" | "live" | "orphan"
      logins  |-> 0,          \* authenticate calls of this get_api
      wrote   |-> FALSE,      \* this get_api opened the cache file for writing
      result  |-> "none",     \* how the command ended: "ok" | an exception's name
      seen    |-> NoDoc,      \* history: the document in the file when it was read
      seenAge |-> 0,          \* history: its age then
      opened  |-> Absent,     \* history: the file as load_auth_cache read it
      raced   |-> FALSE,      \* history: another process had it open for writing then
      started |-> 0 ]         \* history: the clock when the command started

CacheInit ==
    /\ file \in { Absent,
                  [exists |-> TRUE, content |-> Units(LegacyDoc), mode |-> OwnerRW] }
    /\ umask \in Umasks
    /\ now = StartTime
    /\ nticks = 0
    /\ nextTok = 1
    /\ revoked = {}
    /\ proc = [p \in Procs |-> IdleProc]
    /\ rejected = {}
    /\ cleared = {}

\* the session cache at rest, in the specifications of the other parts
CacheOff ==
    /\ file = Absent
    /\ umask = {"gw", "ow"}
    /\ now = StartTime
    /\ nticks = 0
    /\ nextTok = 1
    /\ revoked = {}
    /\ proc = [p \in Procs |-> IdleProc]
    /\ rejected = {}
    /\ cleared = {}

\* main: the command raised, error() prints {"error": msg} and exits with 1
Raise(pr, exc) == [pr EXCEPT !.pc = "idle", !.result = exc]

\* get_api from line 153 on, cache being what load_auth_cache returned: the
\* cached session is used when from_dict accepts it; without one, missing
\* credentials raise and otherwise authenticate is next
get_api_after_load(pr, cache) ==
    LET v2_session == IF cache # NoDoc /\ cache.ok THEN cache.tok ELSE 0
        q == [pr EXCEPT !.cache = cache]
    IN  IF v2_session # 0
        THEN [q EXCEPT !.session = v2_session, !.pc = "ready"]
        ELSE IF ~pr.creds
        THEN Raise(q, "ValueError")
        ELSE [q EXCEPT !.pc = "authenticate"]

\* a command that needs the API starts: get_api, load_auth_cache
StartApi(p) ==
    /\ proc[p].pc = "idle"
    /\ \E c \in BOOLEAN :
          proc' = [proc EXCEPT ![p] =
                      [IdleProc EXCEPT !.pc = "load_exists", !.cmd = "api",
                                       !.creds = c, !.started = now]]
    /\ UNCHANGED <<file, umask, now, nticks, nextTok, revoked, rejected, cleared, notCache>>

\* load_auth_cache: if not AUTH_CACHE_FILE.exists(): return None
load_exists(p) ==
    /\ proc[p].pc = "load_exists"
    /\ proc' = [proc EXCEPT ![p] =
                  IF file.exists THEN [@ EXCEPT !.pc = "load_read"]
                  ELSE get_api_after_load(@, NoDoc)]
    /\ UNCHANGED <<file, umask, now, nticks, nextTok, revoked, rejected, cleared, notCache>>

\* load_auth_cache without its try: the exception of open or json.load
\* leaves get_api
load_uncaught(pr, exc) == Raise(pr, exc)

\* load_auth_cache: except Exception: return None
load_except(pr, exc) == get_api_after_load(pr, NoDoc)

\* load_auth_cache: open, json.load and the TTL test; then get_api goes on
load_read(p) ==
    /\ proc[p].pc = "load_read"
    /\ LET onDisk == IF file.exists /\ Parsable(file.content)
                     THEN file.content[1].doc ELSE NoDoc
           q == [proc[p] EXCEPT
                     !.seen = onDisk, !.seenAge = now - onDisk.at,
                     !.opened = file,
                     !.raced = \E o \in Procs \ {p} : proc[o].pc = "save_write"]
       IN  proc' = [proc EXCEPT ![p] =
                      IF ~file.exists THEN load_except(q, "FileNotFoundError")
                      ELSE IF ~Parsable(file.content)
                      THEN load_except(q, "JSONDecodeError")
                      ELSE get_api_after_load(q, load_auth_cache(file, now))]
    /\ UNCHANGED <<file, umask, now, nticks, nextTok, revoked, rejected, cleared, notCache>>

\* get_api: session = await v2_client.authenticate(username, password); the
\* upstream hands out a new session or the login fails
authenticate(p) ==
    /\ proc[p].pc = "authenticate"
    /\ \/ /\ nextTok <= MaxLogins
          /\ \E n \in 1..MaxDocLen :
                proc' = [proc EXCEPT ![p] =
                            [@ EXCEPT !.pc = "save_open", !.logins = @ + 1,
                                      !.session = nextTok,
                                      !.newdoc = [tok |-> nextTok, at |-> 0,
                                                  ok |-> TRUE, len |-> n]]]
          /\ nextTok' = nextTok + 1
       \/ /\ proc' = [proc EXCEPT ![p] =
                        Raise([@ EXCEPT !.logins = @ + 1], "AuthenticationError")]
          /\ UNCHANGED nextTok
    /\ UNCHANGED <<file, umask, now, nticks, revoked, rejected, cleared, notCache>>

\* save_auth_cache: cache_data["cached_at"] = time.time(); open(..., "w")
save_open(p) ==
    /\ proc[p].pc = "save_open"
    /\ file' = open_w(file, umask)
    /\ proc' = [proc EXCEPT ![p] =
                  [@ EXCEPT !.pc = "save_write", !.fd = "live", !.wrote = TRUE,
                            !.newdoc = [@ EXCEPT !.at = now]]]
    /\ UNCHANGED <<umask, now, nticks, nextTok, revoked, rejected, cleared, notCache>>

\* save_auth_cache: json.dump and the close of the with block; a descriptor
\* whose file was unlinked writes to a file nobody can open
save_write(p) ==
    /\ proc[p].pc = "save_write"
    /\ file' = IF proc[p].fd = "live"
               THEN [file EXCEPT !.content = write_at_0(@, proc[p].newdoc)]
               ELSE file
    /\ proc' = [proc EXCEPT ![p] = [@ EXCEPT !.pc = "save_chmod", !.fd = "none"]]
    /\ UNCHANGED <<umask, now, nticks, nextTok, revoked, rejected, cleared, notCache>>

\* save_auth_cache: AUTH_CACHE_FILE.chmod(0o600); get_api returns the API
save_chmod(p) ==
    /\ proc[p].pc = "save_chmod"
    /\ IF file.exists
       THEN /\ file' = chmod_600(file)
            /\ proc' = [proc EXCEPT ![p] = [@ EXCEPT !.pc = "ready"]]
       ELSE /\ file' = file
            /\ proc' = [proc EXCEPT ![p] = Raise(@, "FileNotFoundError")]
    /\ UNCHANGED <<umask, now, nticks, nextTok, revoked, rejected, cleared, notCache>>

\* the command's upstream request with the session get_api set up, then
\* api.close(): the upstream rejects a revoked session
request(p) ==
    /\ proc[p].pc = "ready"
    /\ IF proc[p].session \in revoked
       THEN /\ proc' = [proc EXCEPT ![p] = Raise(@, "AuthenticationError")]
            /\ rejected' = rejected \cup {proc[p].session}
       ELSE /\ proc' = [proc EXCEPT ![p] = [@ EXCEPT !.pc = "idle", !.result = "ok"]]
            /\ UNCHANGED rejected
    /\ UNCHANGED <<file, umask, now, nticks, nextTok, revoked, cleared, notCache>>

\* auth clear starts: cmd_auth_clear, clear_auth_cache
StartClear(p) ==
    /\ proc[p].pc = "idle"
    /\ proc' = [proc EXCEPT ![p] =
                  [IdleProc EXCEPT !.pc = "clear_exists", !.cmd = "clear",
                                   !.started = now]]
    /\ UNCHANGED <<file, umask, now, nticks, nextTok, revoked, rejected, cleared, notCache>>

\* clear_auth_cache: if AUTH_CACHE_FILE.exists(); without a file the command
\* prints {"ok": true}
clear_exists(p) ==
    /\ proc[p].pc = "clear_exists"
    /\ proc' = [proc EXCEPT ![p] =
                  IF file.exists THEN [@ EXCEPT !.pc = "clear_unlink"]
                  ELSE [@ EXCEPT !.pc = "idle", !.result = "ok"]]
    /\ UNCHANGED <<file, umask, now, nticks, nextTok, revoked, rejected, cleared, notCache>>

\* clear_auth_cache: AUTH_CACHE_FILE.unlink(); descriptors open on the file
\* keep the unlinked file
clear_unlink(p) ==
    /\ proc[p].pc = "clear_unlink"
    /\ IF file.exists
       THEN /\ file' = unlink(file)
            /\ cleared' = cleared \cup TokensIn(file)
            /\ proc' = [q \in Procs |->
                          IF q = p THEN [proc[q] EXCEPT !.pc = "idle", !.result = "ok"]
                          ELSE IF proc[q].fd = "live" THEN [proc[q] EXCEPT !.fd = "orphan"]
                          ELSE proc[q]]
       ELSE /\ file' = file
            /\ cleared' = cleared
            /\ proc' = [proc EXCEPT ![p] = Raise(@, "FileNotFoundError")]
    /\ UNCHANGED <<umask, now, nticks, nextTok, revoked, rejected, notCache>>

\* time passes
Tick ==
    /\ nticks < MaxTicks
    /\ \E d \in TickSteps : now' = now + d
    /\ nticks' = nticks + 1
    /\ UNCHANGED <<file, umask, nextTok, revoked, proc, rejected, cleared, notCache>>

\* the upstream invalidates a session it handed out
Revoke ==
    /\ \E t \in (1..(nextTok - 1)) \ revoked : revoked' = revoked \cup {t}
    /\ UNCHANGED <<file, umask, now, nticks, nextTok, proc, rejected, cleared, notCache>>

\* one step of process p
ProcStep(p) ==
    \/ StartApi(p)
    \/ load_exists(p)
    \/ load_read(p)
    \/ authenticate(p)
    \/ save_open(p)
    \/ save_write(p)
    \/ save_chmod(p)
    \/ request(p)
    \/ StartClear(p)
    \/ clear_exists(p)
    \/ clear_unlink(p)

\* one command at a time
CacheSeqNext ==
    \/ ProcStep("p1")
    \/ Tick
    \/ Revoke

\* commands of two processes, interleaved
CacheConcNext ==
    \E p \in Procs : ProcStep(p)

-----------------------------------------------------------------------------
(***************************************************************************)
(* The CachedAPI facade.  A request runs one verb; it takes one step per   *)
(* awaited upstream call, and every call is written to the request's log.  *)
(* The upstream (the v2 client and the service behind it) answers each     *)
(* call with a result or with an exception.                                *)
(*                                                                         *)
(* A task is a function from TaskFields, the wire names of its fields, to  *)
(* values.  An entity (project, folder, tag, column) is known upstream by  *)
(* its id, a tag by its name.                                              *)
(***************************************************************************)
MaxTitles == 3

MaxIds == 3

MaxRequests == 1

ReqIds == {"r1", "r2"}

\* the requests of a command-line command: one at a time
SeqReqs == {"r1"}

INBOX == "inbox"

Titles == {"a", "b"}

\* the fields cmd_tasks_edit can put into kwargs
EditFields == {"title", "content", "priority", "dueDate", "tags"}

\* the fields the other verbs read or set
StateFields == {"status", "completedTime", "parentId", "pinnedTime"}

TaskFields == {"id", "projectId"} \cup EditFields \cup StateFields

\* TaskStatus.ACTIVE, COMPLETED, ABANDONED
ACTIVE == "Active"

COMPLETED == "Completed"

ABANDONED == "Abandoned"

\* a field of a task a verb never set
Unset(f) == IF f = "status" THEN ACTIVE ELSE ""

TaskId(n) == IF n = 1 THEN "t1" ELSE IF n = 2 THEN "t2" ELSE IF n = 3 THEN "t3"
             ELSE IF n = 4 THEN "t4" ELSE "t5"

TaskIds == { TaskId(n) : n \in 1..MaxIds }

Kinds == {"project", "folder", "tag", "column"}

EntIds == {"e1", "e2"}

EntNames == {"x", "y"}

TitleSeqs == UNION { [1..n -> Titles] : n \in 0..MaxTitles }

\* the keyword arguments of update_task: any of the fields, each with a new value
KwargsSet == UNION { [S -> {"new"}] : S \in SUBSET EditFields }

\* the upstream's task for a create_task call
NewTask(id, title, pid) ==
    [f \in TaskFields |->
        IF f = "id" THEN id ELSE IF f = "projectId" THEN pid
        ELSE IF f = "title" THEN title
        ELSE IF f \in StateFields THEN Unset(f) ELSE "none"]

\* a task the upstream holds before the first request
OldTask(id, pid, parent) ==
    [f \in TaskFields |->
        IF f = "id" THEN id ELSE IF f = "projectId" THEN pid
        ELSE IF f = "parentId" THEN parent
        ELSE IF f \in StateFields THEN Unset(f) ELSE "old"]

\* a record of one upstream call
Call(op, id, title, pid, update) ==
    [op |-> op, id |-> id, title |-> title, pid |-> pid, update |-> update]

IdleReq ==
    [ verb     |-> "none",
      pc       |-> "idle",
      outcome  |-> "none",    \* "running" | "returned" | "raised"
      error    |-> "none",    \* the exception a raised request ended with
      ret      |-> <<>>,      \* the returned value: a list, or <<entity>>
      log      |-> <<>>,      \* the upstream calls issued, in order
      \* create_tasks
      titles   |-> <<>>,
      pid      |-> "",
      k        |-> 0,         \* the title the loop is at
      results  |-> <<>>,
      task_id  |-> "",
      idxs     |-> <<>>,      \* history: the loop index each result was appended at
      made     |-> <<>>,      \* history: the ids the upstream created for this request
      failedAt |-> 0,         \* history: the loop index of the call that failed
      \* update_task
      kwargs   |-> <<>>,
      task     |-> <<>>,      \* the task the first get_task returned
      \* create_project, create_folder, create_tag, create_column
      kind     |-> "",
      name     |-> "",
      new_id   |-> "",
      mutated  |-> FALSE,     \* history: the mutating call succeeded
      relisted |-> FALSE,     \* history: the follow-up list was fetched
      listing  |-> {},        \* history: the ids (names, for tags) it held
      \* complete_tasks ... unset_task_parents
      ids      |-> <<>>,      \* task_ids; the loop is at ids[k]
      parents  |-> <<>>,      \* set_task_parents: the parent_id given with ids[k]
      to       |-> "",        \* move_tasks: to_project_id
      froms    |-> <<>>,      \* the move tool: the from_project_id given with ids[k]
      pin      |-> FALSE,     \* pin_tasks: pin
      updates  |-> <<>>,      \* complete_tasks, abandon_tasks: updates
      pending  |-> <<>>,      \* the upstream calls awaited and not answered yet
      fetched  |-> <<>>,      \* history: the task each answered fetch of the loop gave
      applied  |-> <<>>,      \* history: the mutations the upstream applied, in order
      \* the update tool
      result   |-> [id2etag |-> {}, id2error |-> {}] ]
                              \* history: what client.update_tasks answered

FacadeInit ==
    /\ upTasks = [id \in {"t1", "c1"} |->
                    IF id = "t1" THEN OldTask("t1", "p1", "") ELSE OldTask("c1", "p1", "t1")]
    /\ upEnts = [kd \in Kinds |-> {}]
    /\ nextId = 2
    /\ nreq = 0
    /\ req = [r \in ReqIds |-> IdleReq]

\* the facade at rest, in the specifications of the other parts
FacadeOff == FacadeInit

\* an exception leaves the verb: nothing in CachedAPI catches it
Propagate(rq, err) ==
    [rq EXCEPT !.pc = "done", !.outcome = "raised", !.error = err]

Return(rq, value) ==
    [rq EXCEPT !.pc = "done", !.outcome = "returned", !.ret = value]

Logged(rq, call) == [rq EXCEPT !.log = Append(@, call)]

(***************************************************************************)
(* create_tasks                                                            *)
(***************************************************************************)
\* the head of `for title in titles`: the next title, or return results
create_tasks_loop(rq) ==
    IF rq.k > Len(rq.titles) THEN Return(rq, rq.results)
    ELSE [rq EXCEPT !.pc = "ct_create"]

\* create_tasks swallowing the exception of one title and going on
create_tasks_skip_failed(rq, err) ==
    create_tasks_loop([rq EXCEPT !.k = @ + 1])

\* create_tasks has no try: an exception of a call ends the loop
create_tasks_raise(rq, err) == Propagate(rq, err)

Start_create_tasks(r) ==
    /\ req[r].pc \in {"idle", "done"}
    /\ nreq < MaxRequests
    /\ nreq' = nreq + 1
    /\ \E titles \in TitleSeqs, project_id \in {"", "p1"} :
          req' = [req EXCEPT ![r] =
                    create_tasks_loop(
                        [IdleReq EXCEPT !.verb = "create_tasks", !.outcome = "running",
                                        !.titles = titles,
                                        !.pid = IF project_id # "" THEN project_id ELSE INBOX,
                                        !.k = 1])]
    /\ UNCHANGED <<upTasks, upEnts, nextId, notFacade>>

\* response = await self._v2.create_task(title=title, project_id=pid); the
\* upstream creates the task and names its id, or answers without an id, or
\* the call raises
create_tasks_create(r) ==
    /\ req[r].pc = "ct_create"
    /\ LET rq == req[r]
           call == Call("create_task", "", rq.titles[rq.k], rq.pid, <<>>)
       IN  \/ /\ nextId <= MaxIds
              /\ upTasks' = [id \in DOMAIN upTasks \cup {TaskId(nextId)} |->
                               IF id \in DOMAIN upTasks THEN upTasks[id]
                               ELSE NewTask(id, rq.titles[rq.k], rq.pid)]
              /\ nextId' = nextId + 1
              /\ req' = [req EXCEPT ![r] =
                           [Logged(rq, call) EXCEPT !.pc = "ct_get",
                                                    !.task_id = TaskId(nextId),
                                                    !.made = Append(@, TaskId(nextId))]]
           \/ /\ req' = [req EXCEPT ![r] =
                           create_tasks_loop([Logged(rq, call) EXCEPT !.k = @ + 1])]
              /\ UNCHANGED <<upTasks, nextId>>
           \/ /\ req' = [req EXCEPT ![r] =
                           create_tasks_raise(
                               [Logged(rq, call) EXCEPT !.failedAt = rq.k], "APIError")]
              /\ UNCHANGED <<upTasks, nextId>>
    /\ UNCHANGED <<upEnts, nreq, notFacade>>

\* results.append(await self.get_task(task_id))
create_tasks_get(r) ==
    /\ req[r].pc = "ct_get"
    /\ LET rq == req[r]
           call == Call("get_task", rq.task_id, "", "", <<>>)
       IN  \/ /\ rq.task_id \in DOMAIN upTasks
              /\ req' = [req EXCEPT ![r] =
                           create_tasks_loop(
                               [Logged(rq, call) EXCEPT
                                    !.results = Append(@, upTasks[rq.task_id]),
                                    !.idxs = Append(@, rq.k),
                                    !.k = @ + 1])]
           \/ /\ req' = [req EXCEPT ![r] =
                           create_tasks_raise(
                               [Logged(rq, call) EXCEPT !.failedAt = rq.k], "APIError")]
    /\ UNCHANGED <<upTasks, upEnts, nextId, nreq, notFacade>>

(***************************************************************************)
(* update_task                                                             *)
(***************************************************************************)
\* update_task sending the whole fetched task with the new values over it
update_data_full(task_id, task, kwargs) ==
    [f \in TaskFields |->
        IF f \in DOMAIN kwargs THEN kwargs[f]
        ELSE IF f = "id" THEN task_id ELSE task[f]]

\* {"id": task_id, "projectId": task.project_id, **kwargs}
update_data(task_id, task, kwargs) ==
    [f \in {"id", "projectId"} \cup DOMAIN kwargs |->
        IF f \in DOMAIN kwargs THEN kwargs[f]
        ELSE IF f = "id" THEN task_id ELSE task["projectId"]]

RECURSIVE v2_batch_tasks(_, _)
\* the upstream's batch update: each element changes the fields it names of
\* the task it names; an element naming no task changes nothing
v2_batch_tasks(tasks, update) ==
    IF update = <<>> THEN tasks
    ELSE LET u == Head(update)
             done == IF u["id"] \in DOMAIN tasks
                     THEN [tasks EXCEPT ![u["id"]] =
                              [f \in TaskFields |->
                                  IF f \in DOMAIN u /\ f # "id" THEN u[f] ELSE @[f]]]
                     ELSE tasks
         IN  v2_batch_tasks(done, Tail(update))

Start_update_task(r) ==
    /\ req[r].pc \in {"idle", "done"}
    /\ nreq < MaxRequests
    /\ nreq' = nreq + 1
    /\ \E task_id \in TaskIds, kwargs \in KwargsSet :
          req' = [req EXCEPT ![r] =
                    [IdleReq EXCEPT !.verb = "update_task", !.outcome = "running",
                                    !.pc = "ut_get", !.task_id = task_id,
                                    !.kwargs = kwargs]]
    /\ UNCHANGED <<upTasks, upEnts, nextId, notFacade>>

\* task = await self.get_task(task_id)
update_task_get(r) ==
    /\ req[r].pc = "ut_get"
    /\ LET rq == req[r]
           call == Call("get_task", rq.task_id, "", "", <<>>)
       IN  \/ /\ rq.task_id \in DOMAIN upTasks
              /\ req' = [req EXCEPT ![r] =
                           [Logged(rq, call) EXCEPT !.pc = "ut_batch",
                                                    !.task = upTasks[rq.task_id]]]
           \/ /\ req' = [req EXCEPT ![r] = Propagate(Logged(rq, call), "APIError")]
    /\ UNCHANGED <<upTasks, upEnts, nextId, nreq, notFacade>>

\* await self._v2.batch_tasks(update=[update_data])
update_task_batch(r) ==
    /\ req[r].pc = "ut_batch"
    /\ LET rq == req[r]
           update == <<update_data(rq.task_id, rq.task, rq.kwargs)>>
           call == Call("batch_tasks", "", "", "", update)
       IN  \/ /\ upTasks' = v2_batch_tasks(upTasks, update)
              /\ req' = [req EXCEPT ![r] = [Logged(rq, call) EXCEPT !.pc = "ut_refetch"]]
           \/ /\ req' = [req EXCEPT ![r] = Propagate(Logged(rq, call), "APIError")]
              /\ UNCHANGED upTasks
    /\ UNCHANGED <<upEnts, nextId, nreq, notFacade>>

\* return await self.get_task(task_id)
update_task_refetch(r) ==
    /\ req[r].pc = "ut_refetch"
    /\ LET rq == req[r]
           call == Call("get_task", rq.task_id, "", "", <<>>)
       IN  \/ /\ rq.task_id \in DOMAIN upTasks
              /\ req' = [req EXCEPT ![r] =
                           Return(Logged(rq, call), <<upTasks[rq.task_id]>>)]
           \/ /\ req' = [req EXCEPT ![r] = Propagate(Logged(rq, call), "APIError")]
    /\ UNCHANGED <<upTasks, upEnts, nextId, nreq, notFacade>>

(***************************************************************************)
(* create_project, create_folder, create_tag, create_column: the mutating  *)
(* call, then a listing in which the new entity is looked up.  The listing *)
(* is a second upstream call and may not show what the first one created.  *)
(***************************************************************************)
\* an entity taken from a listing, or built by the facade itself
Entity(id, name, origin) == [id |-> id, name |-> name, origin |-> origin]

Outcome(outcome, ret, error) == [outcome |-> outcome, ret |-> ret, error |-> error]

\* get_project(project_id) inside create_project
create_project_found(project_id, name, listing) ==
    IF project_id \in listing
    THEN Outcome("returned", <<Entity(project_id, name, "listed")>>, "none")
    ELSE Outcome("raised", <<>>, "ValueError: Project not found")

\* the loop over list_folders() in create_folder, and the line after it
create_folder_found(folder_id, name, listing) ==
    IF folder_id \in listing
    THEN Outcome("returned", <<Entity(folder_id, name, "listed")>>, "none")
    ELSE Outcome("returned", <<Entity(folder_id, name, "constructed")>>, "none")

\* the loop over list_tags() in create_tag, and the line after it
create_tag_found(name, listing) ==
    IF name \in listing
    THEN Outcome("returned", <<Entity(name, name, "listed")>>, "none")
    ELSE Outcome("returned", <<Entity(name, name, "constructed")>>, "none")

\* the loop over list_columns() in create_column, and the line after it
create_column_found(column_id, name, listing) ==
    IF column_id \in listing
    THEN Outcome("returned", <<Entity(column_id, name, "listed")>>, "none")
    ELSE Outcome("returned", <<Entity(column_id, name, "constructed")>>, "none")

\* the response of the mutating call named no id
create_project_no_id(name) == Outcome("raised", <<>>, "ValueError: Failed to create project")

create_folder_no_id(name) == Outcome("returned", <<Entity("", name, "constructed")>>, "none")

create_column_no_id(name) == Outcome("returned", <<Entity("", name, "constructed")>>, "none")

Finish(rq, o) ==
    [rq EXCEPT !.pc = "done", !.outcome = o.outcome, !.ret = o.ret, !.error = o.error]

\* the ids the upstream has not given to an entity yet
FreeIds == EntIds \ UNION { upEnts[kd] : kd \in Kinds \ {"tag"} }

Start_create_entity(r) ==
    /\ req[r].pc \in {"idle", "done"}
    /\ nreq < MaxRequests
    /\ nreq' = nreq + 1
    /\ \E kind \in Kinds, name \in EntNames :
          req' = [req EXCEPT ![r] =
                    [IdleReq EXCEPT !.verb = "create_entity", !.outcome = "running",
                                    !.pc = "ce_call", !.kind = kind, !.name = name]]
    /\ UNCHANGED <<upTasks, upEnts, nextId, notFacade>>

\* response = await self._v2.create_<kind>(name=name); the upstream creates
\* the entity and names its id, or answers without an id, or the call raises.
\* create_tag reads no id from the response: a tag is known by its name.
create_entity_call(r) ==
    /\ req[r].pc = "ce_call"
    /\ LET rq == req[r]
           call == Call("create_" \o rq.kind, "", rq.name, "", <<>>)
       IN  \/ /\ rq.kind = "tag"
              /\ upEnts' = [upEnts EXCEPT !["tag"] = @ \cup {rq.name}]
              /\ req' = [req EXCEPT ![r] =
                           [Logged(rq, call) EXCEPT !.pc = "ce_list", !.new_id = rq.name,
                                                    !.mutated = TRUE]]
           \/ /\ rq.kind # "tag"
              /\ \E id \in FreeIds :
                    /\ upEnts' = [upEnts EXCEPT ![rq.kind] = @ \cup {id}]
                    /\ req' = [req EXCEPT ![r] =
                                 [Logged(rq, call) EXCEPT !.pc = "ce_list", !.new_id = id,
                                                          !.mutated = TRUE]]
           \/ /\ rq.kind # "tag"
              /\ req' = [req EXCEPT ![r] =
                           Finish([Logged(rq, call) EXCEPT !.mutated = TRUE],
                                  CASE rq.kind = "project" -> create_project_no_id(rq.name)
                                    [] rq.kind = "folder" -> create_folder_no_id(rq.name)
                                    [] rq.kind = "column" -> create_column_no_id(rq.name))]
              /\ UNCHANGED upEnts
           \/ /\ req' = [req EXCEPT ![r] = Propagate(Logged(rq, call), "APIError")]
              /\ UNCHANGED upEnts
    /\ UNCHANGED <<upTasks, nextId, nreq, notFacade>>

\* the follow-up: list_projects (in get_project), list_folders, list_tags,
\* list_columns; it shows the new entity or is one entity behind, or raises
create_entity_list(r) ==
    /\ req[r].pc = "ce_list"
    /\ LET rq == req[r]
           call == Call("list_" \o rq.kind, "", "", "", <<>>)
       IN  \/ \E listing \in {upEnts[rq.kind], upEnts[rq.kind] \ {rq.new_id}} :
                 req' = [req EXCEPT ![r] =
                           Finish([Logged(rq, call) EXCEPT !.relisted = TRUE,
                                                           !.listing = listing],
                                  CASE rq.kind = "project" ->
                                           create_project_found(rq.new_id, rq.name, listing)
                                    [] rq.kind = "folder" ->
                                           create_folder_found(rq.new_id, rq.name, listing)
                                    [] rq.kind = "tag" ->
                                           create_tag_found(rq.name, listing)
                                    [] rq.kind = "column" ->
                                           create_column_found(rq.new_id, rq.name, listing))]
           \/ req' = [req EXCEPT ![r] = Propagate(Logged(rq, call), "APIError")]
    /\ UNCHANGED <<upTasks, upEnts, nextId, nreq, notFacade>>

(***************************************************************************)
(* The verbs over a list of task ids: complete_tasks, abandon_tasks,       *)
(* delete_tasks, move_tasks, pin_tasks, set_task_parents and               *)
(* unset_task_parents.  Each is a loop over the ids that fetches the task  *)
(* and then builds an update (complete, abandon) or sends a mutation (the  *)
(* others).  Here an awaited call takes two steps, the call being sent and *)
(* the upstream answering, and the request can be cancelled while it       *)
(* waits.                                                                  *)
(***************************************************************************)
MaxItems == 3

\* the ids a caller names: two tasks the upstream has, one it has not
ItemIds == {"t1", "c1", "t2"}

IdSeqs == UNION { [1..n -> ItemIds] : n \in 0..MaxItems }

BatchVerbs == {"complete_tasks", "abandon_tasks"}

EachVerbs == {"delete_tasks", "move_tasks", "pin_tasks", "set_task_parents",
              "unset_task_parents"}

\* Task.format_datetime(datetime.now(), "v2") and now.strftime(...): a time
NOW == "now"

\* a record of one upstream call of these verbs; k is the loop index it was
\* sent at
Sent(op, k, id, pid, arg, update) ==
    [op |-> op, k |-> k, id |-> id, pid |-> pid, arg |-> arg, update |-> update]

\* await self._v2.<call>(...): the call is sent and the coroutine waits
Await(rq, call, wait) ==
    [Logged(rq, call) EXCEPT !.pending = Append(@, call), !.pc = wait]

\* the answer of the call waited for has arrived
Answer(rq) == [rq EXCEPT !.pending = Tail(@)]

\* the update of complete_tasks with the inbox in the place of the project
complete_update_inbox(task_id, task, status, time) ==
    [id |-> task_id, projectId |-> INBOX, status |-> status, completedTime |-> time]

\* the dict complete_tasks and abandon_tasks append to updates
complete_update(task_id, task, status, time) ==
    [id |-> task_id, projectId |-> task["projectId"], status |-> status,
     completedTime |-> time]

\* delete_tasks naming the inbox in the place of the task's project
delete_task_call_inbox(k, task_id, task) ==
    Sent("delete_task", k, task_id, INBOX, "", <<>>)

\* await self._v2.delete_task(task.project_id, task_id)
delete_task_call(k, task_id, task) ==
    Sent("delete_task", k, task_id, task["projectId"], "", <<>>)

\* move_tasks with the two project arguments of move_task exchanged
move_task_call_swapped(k, task_id, task, to_project_id) ==
    Sent("move_task", k, task_id, to_project_id, task["projectId"], <<>>)

\* await self._v2.move_task(task_id, task.project_id, to_project_id)
move_task_call(k, task_id, task, to_project_id) ==
    Sent("move_task", k, task_id, task["projectId"], to_project_id, <<>>)

\* the client behind the tools, moving one task: the project it names to
\* the upstream is the one its own fetch found, whatever the caller gave
client_move_task_call(k, task_id, from_project_id, task, to_project_id) ==
    Sent("move_task", k, task_id, task["projectId"], to_project_id, <<>>)

\* await self._v2.update_task(task_id=task_id, project_id=task.project_id,
\*                            pinned_time=pinned_time or "")
pin_task_call(k, task_id, task, pin) ==
    Sent("update_task", k, task_id, task["projectId"], IF pin THEN NOW ELSE "", <<>>)

\* await self._v2.set_task_parent(task_id, task.project_id, parent_id)
set_task_parent_call(k, task_id, task, parent_id) ==
    Sent("set_task_parent", k, task_id, task["projectId"], parent_id, <<>>)

\* await self._v2.unset_task_parent(task_id, task.project_id, parent_id)
unset_task_parent_call(k, task_id, task) ==
    Sent("unset_task_parent", k, task_id, task["projectId"], task["parentId"], <<>>)

\* the mutation the loop body sends for ids[k] after its fetch
mutation(rq) ==
    LET k == rq.k
        task_id == rq.ids[k]
    IN  CASE rq.verb = "delete_tasks" -> delete_task_call(k, task_id, rq.task)
          [] rq.verb = "move_tasks" -> move_task_call(k, task_id, rq.task, rq.to)
          [] rq.verb = "client_move_tasks" ->
                 client_move_task_call(k, task_id, rq.froms[k], rq.task, rq.to)
          [] rq.verb = "pin_tasks" -> pin_task_call(k, task_id, rq.task, rq.pin)
          [] rq.verb = "set_task_parents" ->
                 set_task_parent_call(k, task_id, rq.task, rq.parents[k])
          [] rq.verb = "unset_task_parents" -> unset_task_parent_call(k, task_id, rq.task)

\* what the upstream does with a mutation: delete and move act on the task
\* in the project the call names and on no other
v2_apply(tasks, call) ==
    IF call.id \notin DOMAIN tasks THEN tasks
    ELSE CASE call.op = "delete_task" ->
                  IF tasks[call.id]["projectId"] = call.pid
                  THEN [id \in DOMAIN tasks \ {call.id} |-> tasks[id]]
                  ELSE tasks
           [] call.op = "move_task" ->
                  IF tasks[call.id]["projectId"] = call.pid
                  THEN [tasks EXCEPT ![call.id]["projectId"] = call.arg]
                  ELSE tasks
           [] call.op = "update_task" -> [tasks EXCEPT ![call.id]["pinnedTime"] = call.arg]
           [] call.op = "set_task_parent" -> [tasks EXCEPT ![call.id]["parentId"] = call.arg]
           [] call.op = "unset_task_parent" -> [tasks EXCEPT ![call.id]["parentId"] = ""]

\* the head of `for task_id in task_ids`: the next id, or what follows the loop
items_loop(rq) ==
    IF rq.k <= Len(rq.ids) THEN [rq EXCEPT !.pc = "get"]
    ELSE IF rq.verb \in BatchVerbs THEN [rq EXCEPT !.pc = "batch"]
    ELSE Return(rq, rq.results)

\* a loop that catches the exception of one id and goes on with the next
items_skip_failed(rq, err) == items_loop([rq EXCEPT !.k = @ + 1])

\* the loops have no try: an exception of an awaited call ends the verb
items_raise(rq, err) == Propagate(rq, err)

\* unset_task_parents without the check of parent_id
unset_unchecked(rq) == [rq EXCEPT !.pc = "mutate"]

\* parent_id = task.parent_id; if not parent_id: raise ValueError(...)
unset_checked(rq) ==
    IF rq.task["parentId"] = ""
    THEN Propagate([rq EXCEPT !.failedAt = rq.k], "ValueError: Task has no parent")
    ELSE [rq EXCEPT !.pc = "mutate"]

\* the loop body after task = await self.get_task(task_id)
after_get(rq) ==
    IF rq.verb \in BatchVerbs
    THEN items_loop(
             [rq EXCEPT !.updates =
                            Append(@, complete_update(
                                          rq.ids[rq.k], rq.task,
                                          IF rq.verb = "complete_tasks" THEN COMPLETED
                                          ELSE ABANDONED,
                                          NOW)),
                        !.k = @ + 1])
    ELSE IF rq.verb = "unset_task_parents" THEN unset_checked(rq)
    ELSE [rq EXCEPT !.pc = "mutate"]

\* the loop body after the mutation was answered
after_mutate(rq) ==
    IF rq.verb = "pin_tasks" THEN [rq EXCEPT !.pc = "refetch"]
    ELSE items_loop([rq EXCEPT !.k = @ + 1])

StartItems(r, verb, ids, parents, to, pin) ==
    /\ req[r].pc = "idle"
    /\ req' = [req EXCEPT ![r] =
                 items_loop([IdleReq EXCEPT !.verb = verb, !.outcome = "running",
                                            !.ids = ids, !.parents = parents,
                                            !.to = to, !.pin = pin, !.k = 1])]
    /\ UNCHANGED <<upTasks, upEnts, nextId, nreq, notFacade>>

Start_complete_tasks(r) ==
    \E task_ids \in IdSeqs : StartItems(r, "complete_tasks", task_ids, <<>>, "", FALSE)

Start_abandon_tasks(r) ==
    \E task_ids \in IdSeqs : StartItems(r, "abandon_tasks", task_ids, <<>>, "", FALSE)

Start_delete_tasks(r) ==
    \E task_ids \in IdSeqs : StartItems(r, "delete_tasks", task_ids, <<>>, "", FALSE)

Start_move_tasks(r) ==
    \E task_ids \in IdSeqs, to_project_id \in {INBOX, "p2"} :
        StartItems(r, "move_tasks", task_ids, <<>>, to_project_id, FALSE)

\* ticktick_tasks, action "move": await client.move_tasks(params.moves);
\* each move names task_id, from_project_id and to_project_id; TasksInput
\* rejects an empty list of moves
Start_tool_move(r) ==
    /\ req[r].pc = "idle"
    /\ \E task_ids \in IdSeqs \ {<<>>}, from_project_id \in {"p1", "p2"},
          to_project_id \in {INBOX, "p2"} :
          req' = [req EXCEPT ![r] =
                    items_loop([IdleReq EXCEPT
                                    !.verb = "client_move_tasks", !.outcome = "running",
                                    !.ids = task_ids,
                                    !.froms = [i \in 1..Len(task_ids) |-> from_project_id],
                                    !.to = to_project_id, !.k = 1])]
    /\ UNCHANGED <<upTasks, upEnts, nextId, nreq, notFacade>>

Start_pin_tasks(r) ==
    \E task_ids \in IdSeqs, pin \in BOOLEAN :
        StartItems(r, "pin_tasks", task_ids, <<>>, "", pin)

\* every task is given the same parent here
Start_set_task_parents(r) ==
    \E task_ids \in IdSeqs, parent_id \in {"t1"} :
        StartItems(r, "set_task_parents", task_ids,
                   [i \in 1..Len(task_ids) |-> parent_id], "", FALSE)

Start_unset_task_parents(r) ==
    \E task_ids \in IdSeqs : StartItems(r, "unset_task_parents", task_ids, <<>>, "", FALSE)

\* task = await self.get_task(task_id): the call is sent
get_send(r) ==
    /\ req[r].pc = "get"
    /\ req' = [req EXCEPT ![r] =
                 Await(@, Sent("get_task", @.k, @.ids[@.k], "", "", <<>>), "get_wait")]
    /\ UNCHANGED <<upTasks, upEnts, nextId, nreq, notFacade>>

\* ... and answered with the task, or with an exception
get_recv(r) ==
    /\ req[r].pc = "get_wait"
    /\ LET rq == req[r]
           task_id == rq.ids[rq.k]
       IN  \/ /\ task_id \in DOMAIN upTasks
              /\ req' = [req EXCEPT ![r] =
                           after_get([Answer(rq) EXCEPT
                                          !.task = upTasks[task_id],
                                          !.fetched = Append(@, upTasks[task_id])])]
           \/ req' = [req EXCEPT ![r] =
                        items_raise([Answer(rq) EXCEPT !.failedAt = rq.k], "APIError")]
    /\ UNCHANGED <<upTasks, upEnts, nextId, nreq, notFacade>>

\* the mutation sent without await: the loop goes on while it is in flight
send_mutation_no_await(rq) ==
    after_mutate([Logged(rq, mutation(rq)) EXCEPT !.pending = Append(@, mutation(rq))])

\* await self._v2.delete_task(...), move_task(...), update_task(...), ...
send_mutation(rq) == Await(rq, mutation(rq), "mutate_wait")

\* the mutation of the loop body is sent
mutate_send(r) ==
    /\ req[r].pc = "mutate"
    /\ req' = [req EXCEPT ![r] = send_mutation(@)]
    /\ UNCHANGED <<upTasks, upEnts, nextId, nreq, notFacade>>

\* ... and answered: the upstream has applied it, or the call raises
mutate_recv(r) ==
    /\ req[r].pc = "mutate_wait"
    /\ LET rq == req[r]
           call == Head(rq.pending)
       IN  \/ /\ upTasks' = v2_apply(upTasks, call)
              /\ req' = [req EXCEPT ![r] =
                           after_mutate([Answer(rq) EXCEPT !.applied = Append(@, call)])]
           \/ /\ req' = [req EXCEPT ![r] =
                           items_raise([Answer(rq) EXCEPT !.failedAt = rq.k], "APIError")]
              /\ UNCHANGED upTasks
    /\ UNCHANGED <<upEnts, nextId, nreq, notFacade>>

\* pin_tasks: results.append(await self.get_task(task_id)), the call is sent
refetch_send(r) ==
    /\ req[r].pc = "refetch"
    /\ req' = [req EXCEPT ![r] =
                 Await(@, Sent("get_task", @.k, @.ids[@.k], "", "", <<>>), "refetch_wait")]
    /\ UNCHANGED <<upTasks, upEnts, nextId, nreq, notFacade>>

\* ... and answered
refetch_recv(r) ==
    /\ req[r].pc = "refetch_wait"
    /\ LET rq == req[r]
           task_id == rq.ids[rq.k]
       IN  \/ /\ task_id \in DOMAIN upTasks
              /\ req' = [req EXCEPT ![r] =
                           items_loop([Answer(rq) EXCEPT
                                           !.results = Append(@, upTasks[task_id]),
                                           !.k = @ + 1])]
           \/ req' = [req EXCEPT ![r] =
                        items_raise([Answer(rq) EXCEPT !.failedAt = rq.k], "APIError")]
    /\ UNCHANGED <<upTasks, upEnts, nextId, nreq, notFacade>>

\* complete_tasks, abandon_tasks: await self._v2.batch_tasks(update=updates)
batch_send(r) ==
    /\ req[r].pc = "batch"
    /\ req' = [req EXCEPT ![r] =
                 Await(@, Sent("batch_tasks", @.k, "", "", "", @.updates), "batch_wait")]
    /\ UNCHANGED <<upTasks, upEnts, nextId, nreq, notFacade>>

\* ... and answered
batch_recv(r) ==
    /\ req[r].pc = "batch_wait"
    /\ LET rq == req[r]
           call == Head(rq.pending)
       IN  \/ /\ upTasks' = v2_batch_tasks(upTasks, call.update)
              /\ req' = [req EXCEPT ![r] =
                           Return([Answer(rq) EXCEPT !.applied = Append(@, call)], <<>>)]
           \/ /\ req' = [req EXCEPT ![r] =
                           Propagate([Answer(rq) EXCEPT !.failedAt = rq.k], "APIError")]
              /\ UNCHANGED upTasks
    /\ UNCHANGED <<upEnts, nextId, nreq, notFacade>>

(***************************************************************************)
(* The update action of the ticktick_tasks tool: the update specs go to    *)
(* the client in one call, and the client answers, as the upstream's batch *)
(* update does, with the ids it updated (id2etag) and the ids it could not *)
(* (id2error).  A response is modelled by what its text tells: a count of  *)
(* updated tasks, the ids it lists as updated, the ids it lists errors for.*)
(***************************************************************************)
Response(success, count, updated_ids, errors) ==
    [success |-> success, count |-> count, updated_ids |-> updated_ids, errors |-> errors]

\* success_message(f"{count} task(s) updated.") with count = len(update_specs)
tool_update_response(update_specs, results) ==
    Response(TRUE, Len(update_specs), {}, {})

\* handle_error(e, "tasks.update"): an error message
tool_error_response == Response(FALSE, 0, {}, {})

\* client.update_tasks(update_specs): one batch update; the answer names the
\* ids updated and the ids that failed
client_update_results(tasks, update_specs) ==
    [id2etag |-> { update_specs[i]["id"] : i \in 1..Len(update_specs) } \cap DOMAIN tasks,
     id2error |-> { update_specs[i]["id"] : i \in 1..Len(update_specs) } \ DOMAIN tasks]

\* update_specs = params.tasks or []: each spec names a task and a new title;
\* TasksInput rejects an empty list of tasks
Start_tool_update(r) ==
    /\ req[r].pc = "idle"
    /\ \E task_ids \in IdSeqs \ {<<>>} :
          req' = [req EXCEPT ![r] =
                    [IdleReq EXCEPT !.verb = "tool_update", !.outcome = "running",
                                    !.pc = "tool_update", !.ids = task_ids,
                                    !.updates = [i \in 1..Len(task_ids) |->
                                                    [id |-> task_ids[i], title |-> "new"]]]]
    /\ UNCHANGED <<upTasks, upEnts, nextId, nreq, notFacade>>

\* await client.update_tasks(update_specs); count = len(update_specs);
\* return success_message(...), or handle_error(e, ...) when the call raises
tool_update_call(r) ==
    /\ req[r].pc = "tool_update"
    /\ LET rq == req[r]
           call == Sent("update_tasks", 0, "", "", "", rq.updates)
           results == client_update_results(upTasks, rq.updates)
       IN  \/ /\ upTasks' = v2_batch_tasks(upTasks, rq.updates)
              /\ req' = [req EXCEPT ![r] =
                           Return([Logged(rq, call) EXCEPT !.result = results,
                                                           !.mutated = TRUE],
                                  <<tool_update_response(rq.updates, results)>>)]
           \/ /\ req' = [req EXCEPT ![r] = Return(Logged(rq, call), <<tool_error_response>>)]
              /\ UNCHANGED upTasks
    /\ UNCHANGED <<upEnts, nextId, nreq, notFacade>>

WaitPcs == {"get_wait", "mutate_wait", "refetch_wait", "batch_wait"}

\* the request is cancelled while it waits for an answer: the await raises
\* CancelledError; a mutation already sent reaches the upstream or does not
Abort(r) ==
    /\ req[r].pc \in WaitPcs
    /\ LET rq == req[r]
           call == Head(rq.pending)
           gone == [rq EXCEPT !.failedAt = rq.k, !.pending = <<>>]
       IN  \/ /\ req' = [req EXCEPT ![r] = Propagate(gone, "CancelledError")]
              /\ UNCHANGED upTasks
           \/ /\ rq.pc \in {"mutate_wait", "batch_wait"}
              /\ upTasks' = IF rq.pc = "batch_wait"
                            THEN v2_batch_tasks(upTasks, call.update)
                            ELSE v2_apply(upTasks, call)
              /\ req' = [req EXCEPT ![r] =
                           Propagate([gone EXCEPT !.applied = Append(@, call)],
                                     "CancelledError")]
    /\ UNCHANGED <<upEnts, nextId, nreq, notFacade>>

ItemsStep(r) ==
    \/ Start_complete_tasks(r)
    \/ Start_abandon_tasks(r)
    \/ Start_delete_tasks(r)
    \/ Start_move_tasks(r)
    \/ Start_tool_move(r)
    \/ Start_pin_tasks(r)
    \/ Start_set_task_parents(r)
    \/ Start_unset_task_parents(r)
    \/ get_send(r)
    \/ get_recv(r)
    \/ mutate_send(r)
    \/ mutate_recv(r)
    \/ refetch_send(r)
    \/ refetch_recv(r)
    \/ batch_send(r)
    \/ batch_recv(r)
    \/ Abort(r)
    \/ Start_tool_update(r)
    \/ tool_update_call(r)

\* one request at a time
ItemsNext == \E r \in SeqReqs : ItemsStep(r)

(***************************************************************************)
(* Two requests through the same session at the same time: nothing in      *)
(* CachedAPI or in the server orders them, so their steps interleave at    *)
(* every await.  Each runs one of the verbs that fetch and then mutate.    *)
(***************************************************************************)
MaxConcItems == 1

\* the inputs of two requests at a time: each names at most MaxConcItems
\* tasks, and update_task changes at most the title
ConcIdSeqs == UNION { [1..n -> ItemIds] : n \in 0..MaxConcItems }

ConcKwargs == UNION { [S -> {"new"}] : S \in SUBSET {"title"} }

Conc_update_task(r) ==
    /\ req[r].pc = "idle"
    /\ \E task_id \in ItemIds, kwargs \in ConcKwargs :
          req' = [req EXCEPT ![r] =
                    [IdleReq EXCEPT !.verb = "update_task", !.outcome = "running",
                                    !.pc = "ut_get", !.task_id = task_id,
                                    !.kwargs = kwargs]]
    /\ UNCHANGED <<upTasks, upEnts, nextId, nreq, notFacade>>

Conc_complete_tasks(r) ==
    \E task_ids \in ConcIdSeqs : StartItems(r, "complete_tasks", task_ids, <<>>, "", FALSE)

Conc_delete_tasks(r) ==
    \E task_ids \in ConcIdSeqs : StartItems(r, "delete_tasks", task_ids, <<>>, "", FALSE)

Conc_move_tasks(r) ==
    \E task_ids \in ConcIdSeqs, to_project_id \in {INBOX, "p2"} :
        StartItems(r, "move_tasks", task_ids, <<>>, to_project_id, FALSE)

ConcStep(r) ==
    \/ Conc_update_task(r)
    \/ update_task_get(r)
    \/ update_task_batch(r)
    \/ update_task_refetch(r)
    \/ Conc_complete_tasks(r)
    \/ Conc_delete_tasks(r)
    \/ Conc_move_tasks(r)
    \/ get_send(r)
    \/ get_recv(r)
    \/ mutate_send(r)
    \/ mutate_recv(r)
    \/ batch_send(r)
    \/ batch_recv(r)

ItemsConcNext == \E r \in ReqIds : ConcStep(r)

(***************************************************************************)
(* One request: the verbs of the facade, step by step.                     *)
(***************************************************************************)
ReqStep(r) ==
    \/ Start_create_tasks(r)
    \/ create_tasks_create(r)
    \/ create_tasks_get(r)
    \/ Start_update_task(r)
    \/ update_task_get(r)
    \/ update_task_batch(r)
    \/ update_task_refetch(r)
    \/ Start_create_entity(r)
    \/ create_entity_call(r)
    \/ create_entity_list(r)

-----------------------------------------------------------------------------
(***************************************************************************)
(* Listing the active tasks: CachedAPI.list_tasks behind `tasks list`      *)
(* (fast_cli.py) and ticktick_tasks, action "list" (server.py).  Both      *)
(* filter the tasks of one full sync by the parameters of the request.     *)
(***************************************************************************)
MaxSync == 2

MaxLimit == 2

\* a datetime: a calendar day and a time of day on it; None is NoInstant
Instant(d, s) == [set |-> TRUE, d |-> d, s |-> s]

NoInstant == [set |-> FALSE, d |-> 0, s |-> 0]

\* a < b on datetimes
Before(a, b) == a.d < b.d \/ (a.d = b.d /\ a.s < b.s)

\* datetime.now() during the listing, and datetime.date() of a datetime
CLOCK == Instant(3, 1)

Date(a) == a.d

\* str(datetime)[:10], the ISO date "YYYY-MM-DD", as the number of its day:
\* dates of this form order lexicographically as their days do
DatePrefix(a) == a.d

\* str.lower() on the tags of the model
Lower(s) == IF s = "Work" THEN "work" ELSE s

\* a str or None: title and content of a task
Text(s) == [null |-> FALSE, s |-> s]

None == [null |-> TRUE, s |-> <<>>]

\* Task.from_v2 of one entry of syncTaskBean.update
BaseTask ==
    [status |-> ACTIVE, project_id |-> "p1", column_id |-> "", tags |-> {},
     priority |-> 0, due_date |-> NoInstant,
     created_time |-> NoInstant, modified_time |-> NoInstant,
     title |-> None, content |-> None]

\* the tasks a sync can hold: BaseTask and its variants in one attribute
SyncTasks ==
    {BaseTask,
     [BaseTask EXCEPT !.status = COMPLETED],
     [BaseTask EXCEPT !.project_id = "p2"],
     [BaseTask EXCEPT !.column_id = "c1"],
     [BaseTask EXCEPT !.tags = {"Work"}],
     [BaseTask EXCEPT !.tags = {"home", "work"}],
     [BaseTask EXCEPT !.priority = 5],
     [BaseTask EXCEPT !.due_date = Instant(2, 1)],
     [BaseTask EXCEPT !.due_date = Instant(3, 0)],
     [BaseTask EXCEPT !.due_date = Instant(3, 1)],
     [BaseTask EXCEPT !.due_date = Instant(3, 2)],
     [BaseTask EXCEPT !.created_time = Instant(1, 1)],
     [BaseTask EXCEPT !.created_time = Instant(3, 1)],
     [BaseTask EXCEPT !.modified_time = Instant(1, 1)]}

SyncDocs == UNION {[1..n -> SyncTasks] : n \in 0..MaxSync}

\* the parameters of a listing when none is supplied
NoQuery ==
    [project_id |-> "", column_id |-> "", tag |-> "", priority |-> "",
     due_today |-> FALSE, overdue |-> FALSE,
     from_date |-> 0, to_date |-> 0, days |-> 0]

OneFilter ==
    {[NoQuery EXCEPT !.project_id = "p1"],
     [NoQuery EXCEPT !.column_id = "c1"],
     [NoQuery EXCEPT !.tag = "work"],
     [NoQuery EXCEPT !.tag = "Work"],
     [NoQuery EXCEPT !.priority = "high"],
     [NoQuery EXCEPT !.priority = "none"],
     [NoQuery EXCEPT !.due_today = TRUE],
     [NoQuery EXCEPT !.overdue = TRUE],
     [NoQuery EXCEPT !.from_date = 2],
     [NoQuery EXCEPT !.to_date = 2],
     [NoQuery EXCEPT !.days = 1]}

Merge(a, b) == [f \in DOMAIN NoQuery |-> IF a[f] # NoQuery[f] THEN a[f] ELSE b[f]]

\* the requests of the model: at most two parameters supplied, and limit
Queries == {NoQuery} \cup {Merge(a, b) : a, b \in OneFilter}

Limits == 0..MaxLimit

\* tasks[:n] for n >= 0
FirstN(tasks, n) == SubSeq(tasks, 1, IF n < Len(tasks) THEN n ELSE Len(tasks))

ListInit ==
    /\ sync \in SyncDocs
    /\ query \in Queries
    /\ limit \in Limits
    /\ surface = "none"
    /\ listed = <<>>
    /\ needle = <<>>
    /\ upcalls = <<>>

\* the listing at rest, in the specifications of the other parts
ListOff ==
    /\ sync = <<>>
    /\ query = NoQuery
    /\ limit = 0
    /\ surface = "off"
    /\ listed = <<>>
    /\ needle = <<>>
    /\ upcalls = <<>>

\* cmd_tasks_list: --priority low|medium|high to the ordinal scale, else None
priority_map(p) == CASE p = "low" -> 1 [] p = "medium" -> 3 [] p = "high" -> 5

\* list_tasks: from_date as the loop uses it
cli_from_date(q) ==
    IF q.days # 0 /\ q.from_date = 0 THEN Date(CLOCK) - q.days ELSE q.from_date

\* list_tasks: the date a task is ranged by
task_date(task) ==
    IF task.created_time.set THEN task.created_time ELSE task.modified_time

\* list_tasks: one round of the loop reaches tasks.append(task)
cli_appends(task, q) ==
    /\ task.status = ACTIVE
    /\ ~(q.project_id # "" /\ task.project_id # q.project_id)
    /\ ~(q.column_id # "" /\ task.column_id # q.column_id)
    /\ ~(q.tag # "" /\ q.tag \notin task.tags)
    /\ ~(q.priority # "" /\ task.priority # priority_map(q.priority))
    /\ q.due_today =>
          /\ task.due_date.set
          /\ Date(task.due_date) = Date(CLOCK)
    /\ q.overdue =>
          /\ task.due_date.set
          /\ Before(task.due_date, CLOCK)
    /\ cli_from_date(q) # 0 =>
          ~(task_date(task).set /\ DatePrefix(task_date(task)) < cli_from_date(q))
    /\ q.to_date # 0 =>
          ~(task_date(task).set /\ DatePrefix(task_date(task)) > q.to_date)

\* CachedAPI.list_tasks
list_tasks(tasks, q, n) ==
    LET appended == SelectSeq(tasks, LAMBDA task : cli_appends(task, q))
    IN  IF n # 0 THEN FirstN(appended, n) ELSE appended

\* TickTickClient.get_all_tasks: the active tasks of the sync, in its order
get_all_tasks(tasks) == SelectSeq(tasks, LAMBDA t : t.status = ACTIVE)

\* Task.is_completed
is_completed(t) == t.status = COMPLETED

\* ticktick_tasks, action "list": the priority names of the tool
pmap(p) ==
    CASE p = "none" -> 0 [] p = "low" -> 1 [] p = "medium" -> 3 [] p = "high" -> 5

DEFAULT_LIMIT == 50

\* ticktick_tasks, action "list", status "active": the filters, one after another
tool_filtered(tasks, q) ==
    LET t0 == get_all_tasks(tasks)
        t1 == IF q.project_id # ""
              THEN SelectSeq(t0, LAMBDA t : t.project_id = q.project_id) ELSE t0
        t2 == IF q.column_id # ""
              THEN SelectSeq(t1, LAMBDA t : t.column_id = q.column_id) ELSE t1
        t3 == IF q.tag # ""
              THEN SelectSeq(t2, LAMBDA t :
                       \E tag \in t.tags : Lower(tag) = Lower(q.tag))
              ELSE t2
        t4 == IF q.priority # ""
              THEN SelectSeq(t3, LAMBDA t : t.priority = pmap(q.priority)) ELSE t3
        t5 == IF q.due_today
              THEN SelectSeq(t4, LAMBDA t :
                       t.due_date.set /\ Date(t.due_date) = Date(CLOCK))
              ELSE t4
        t6 == IF q.overdue
              THEN SelectSeq(t5, LAMBDA t :
                       /\ t.due_date.set
                       /\ Date(t.due_date) < Date(CLOCK)
                       /\ ~is_completed(t))
              ELSE t5
    IN  t6

\* ticktick_tasks, action "list": the tasks the response is rendered from
tool_list(tasks, q, n) ==
    FirstN(tool_filtered(tasks, q), IF n # 0 THEN n ELSE DEFAULT_LIMIT)

\* `tasks list` of the command line; argparse admits low, medium and high
cmd_tasks_list ==
    /\ surface = "none"
    /\ query.priority # "none"
    /\ surface' = "cli"
    /\ listed' = list_tasks(sync, query, limit)
    /\ upcalls' = <<"sync">>
    /\ UNCHANGED <<sync, query, limit, needle, notList>>

\* ticktick_tasks with action "list" and status "active"
ticktick_tasks_list_active ==
    /\ surface = "none"
    /\ surface' = "tool"
    /\ listed' = tool_list(sync, query, limit)
    /\ upcalls' = <<"get_all_tasks">>
    /\ UNCHANGED <<sync, query, limit, needle, notList>>

ListNext == cmd_tasks_list \/ ticktick_tasks_list_active

-----------------------------------------------------------------------------
(***************************************************************************)
(* Searching: CachedAPI.search_tasks behind `tasks search` (fast_cli.py).  *)
(***************************************************************************)

\* str.lower() on the characters of the model
LowerChar(c) == CASE c = "A" -> "a" [] c = "B" -> "b" [] OTHER -> c

\* str.lower()
lower(s) == [i \in 1..Len(s) |-> LowerChar(s[i])]

\* q in s, on strings
in(q, s) == \E i \in 1..(Len(s) - Len(q) + 1) : SubSeq(s, i, i + Len(q) - 1) = q

\* x or ""
or_empty(x) == IF x.null \/ x.s = <<>> THEN <<>> ELSE x.s

\* the titles and contents of the tasks of a search
Texts ==
    {None, Text(<<>>), Text(<<"A">>), Text(<<"b">>), Text(<<"b", "A">>), Text(<<"a", "b">>)}

Contents == {None, Text(<<"A">>), Text(<<"b">>)}

SearchTasks ==
    {[BaseTask EXCEPT !.title = title, !.content = content] :
         title \in Texts, content \in Contents}
    \cup {[BaseTask EXCEPT !.title = Text(<<"A">>), !.status = COMPLETED]}

SearchDocs == UNION {[1..n -> SearchTasks] : n \in 0..MaxSync}

\* args.query
Needles == {<<>>, <<"a">>, <<"A">>, <<"B">>, <<"a", "b">>, <<"A", "b">>}

SearchInit ==
    /\ sync \in SearchDocs
    /\ needle \in Needles
    /\ query = NoQuery
    /\ limit = 0
    /\ surface = "none"
    /\ listed = <<>>
    /\ upcalls = <<>>

\* the test of the comprehension of search_tasks, title only
matches_title_only(t, q) == in(q, lower(or_empty(t.title)))

\* the test of the comprehension of search_tasks
matches(t, q) ==
    in(q, lower(or_empty(t.title))) \/ in(q, lower(or_empty(t.content)))

\* CachedAPI.search_tasks
search_tasks(tasks, search_query) ==
    LET listed_tasks == list_tasks(tasks, NoQuery, 0)
        q == lower(search_query)
    IN  SelectSeq(listed_tasks, LAMBDA t : matches(t, q))

\* `tasks search`: cmd_tasks_search calls search_tasks, whose only upstream
\* call is the sync of list_tasks
cmd_tasks_search ==
    /\ surface = "none"
    /\ surface' = "search"
    /\ listed' = search_tasks(sync, needle)
    /\ upcalls' = <<"sync">>
    /\ UNCHANGED <<sync, query, limit, needle, notList>>

SearchNext == cmd_tasks_search

-----------------------------------------------------------------------------
(***************************************************************************)
(* The tool-call surface: the eight tools of server.py.  Each runs its     *)
(* whole body inside `try: ... except Exception as e: return               *)
(* handle_error(e, ...)`.                                                  *)
(***************************************************************************)
Tools ==
    {"ticktick_tasks", "ticktick_projects", "ticktick_folders", "ticktick_tags",
     "ticktick_habits", "ticktick_columns", "ticktick_user", "ticktick_focus"}

\* the action names TasksInput .. FocusInput admit
ActionsOf(t) ==
    CASE t = "ticktick_tasks" ->
             {"create", "get", "list", "update", "complete", "delete", "move",
              "pin", "search", "set_parents", "unparent"}
      [] t = "ticktick_projects" -> {"list", "get", "create", "update", "delete"}
      [] t = "ticktick_folders" -> {"list", "create", "rename", "delete"}
      [] t = "ticktick_tags" -> {"list", "create", "update", "delete", "merge"}
      [] t = "ticktick_habits" ->
             {"list", "get", "sections", "create", "update", "delete", "checkin",
              "checkins"}
      [] t = "ticktick_columns" -> {"list", "create", "update", "delete"}
      [] t = "ticktick_user" -> {"profile", "status", "statistics", "preferences"}
      [] t = "ticktick_focus" -> {"heatmap", "by_tag"}

\* ticktick_tasks: the actions that index the per-item dicts (t["task_id"], ...)
ItemActions == {"complete", "delete", "pin", "set_parents", "unparent"}

\* the class name of an exception, as its words: type(e).__name__
ExcTypes ==
    {<<"TickTick", "Authentication", "Error">>, <<"TickTick", "NotFound", "Error">>,
     <<"TickTick", "Validation", "Error">>, <<"Validation", "Error">>,
     <<"TickTick", "API", "Error">>, <<"Key", "Error">>, <<"Type", "Error">>}

NoExc == <<>>

\* "Word" in error_type
has(word, error_type) == \E i \in 1..Len(error_type) : error_type[i] = word

\* error_message(error, suggestion)
error_message(error, suggestion) ==
    [kind |-> "str", text |-> "**Error**", error |-> error, suggestion |-> suggestion]

\* what an action returns when nothing raises: success_message or a rendering
tool_result(action) == [kind |-> "str", text |-> "result", error |-> "", suggestion |-> <<>>]

NoResponse == [kind |-> "none", text |-> "", error |-> "", suggestion |-> <<>>]

\* handle_error
handle_error(error_type) ==
    IF has("Authentication", error_type)
    THEN error_message("Authentication failed", <<"Check TICKTICK_* environment variables.">>)
    ELSE IF has("NotFound", error_type)
    THEN error_message("Not found: <str(e)>", <<"Verify the ID exists.">>)
    ELSE IF has("Validation", error_type)
    THEN error_message("Invalid input: <str(e)>", <<"Check parameters.">>)
    ELSE error_message("Error: <str(e)>", <<"Type:">> \o error_type)

\* the steps of a tool body, in order
Stages == <<"get_client", "items", "client", "format">>

\* a try that spans the awaited client call only
try_covers_call_only(stage) == stage = "client"

\* the try of a tool spans its whole body
try_covers(stage) == stage \in {"get_client", "items", "client", "format"}

\* what can raise at a stage: a missing key in the lifespan context or in a
\* per-item dict, any error of the client, an error of the rendering
RaisedAt(t, action, stage) ==
    CASE stage = "get_client" -> {<<"Key", "Error">>}
      [] stage = "items" ->
             IF t = "ticktick_tasks" /\ action \in ItemActions
             THEN {<<"Key", "Error">>} ELSE {}
      [] stage = "client" -> ExcTypes
      [] stage = "format" -> {<<"Type", "Error">>, <<"Validation", "Error">>}

IdleCall ==
    [tool |-> "none", action |-> "none", pc |-> "idle", k |-> 0,
     exc |-> NoExc, at |-> "none", response |-> NoResponse]

ToolInit == tcall = IdleCall /\ cmd = [pc |-> "off"]

\* the framework calls the tool function with validated params
tool_enter ==
    /\ tcall.pc = "idle"
    /\ \E t \in Tools : \E action \in ActionsOf(t) :
          tcall' = [IdleCall EXCEPT !.tool = t, !.action = action, !.pc = "try", !.k = 1]
    /\ UNCHANGED <<cmd, notSurf>>

\* one step of the body passes
tool_stage_passes ==
    /\ tcall.pc = "try"
    /\ tcall.k <= Len(Stages)
    /\ tcall' = [tcall EXCEPT !.k = @ + 1]
    /\ UNCHANGED <<cmd, notSurf>>

\* one step of the body raises
tool_stage_raises ==
    /\ tcall.pc = "try"
    /\ tcall.k <= Len(Stages)
    /\ \E e \in RaisedAt(tcall.tool, tcall.action, Stages[tcall.k]) :
          tcall' = [tcall EXCEPT !.exc = e, !.at = Stages[tcall.k],
                                 !.pc = IF try_covers(Stages[tcall.k])
                                        THEN "except" ELSE "propagated"]
    /\ UNCHANGED <<cmd, notSurf>>

\* return success_message(...) / the rendering
tool_returns ==
    /\ tcall.pc = "try"
    /\ tcall.k = Len(Stages) + 1
    /\ tcall' = [tcall EXCEPT !.pc = "returned", !.response = tool_result(tcall.action)]
    /\ UNCHANGED <<cmd, notSurf>>

\* except Exception as e: return handle_error(e, ...)
tool_except ==
    /\ tcall.pc = "except"
    /\ tcall' = [tcall EXCEPT !.pc = "returned", !.response = handle_error(tcall.exc)]
    /\ UNCHANGED <<cmd, notSurf>>

ToolNext ==
    \/ tool_enter
    \/ tool_stage_passes
    \/ tool_stage_raises
    \/ tool_returns
    \/ tool_except

-----------------------------------------------------------------------------
(***************************************************************************)
(* The command-line surface: main and the command handlers of fast_cli.py. *)
(* A handler that talks to the upstream is                                 *)
(*     api = await get_api()                                               *)
(*     try: <one verb of the api>; output(...)                             *)
(*     finally: await api.close()                                          *)
(* and main turns an exception of the handler into error(str(e)).  The     *)
(* OAuth login command hands over to another program and is left out.      *)
(***************************************************************************)
ApiHandlers ==
    {"cmd_tasks_list", "cmd_tasks_get", "cmd_tasks_add", "cmd_tasks_edit",
     "cmd_tasks_done", "cmd_tasks_abandon", "cmd_tasks_rm", "cmd_tasks_move",
     "cmd_tasks_pin", "cmd_tasks_search", "cmd_tasks_parent", "cmd_tasks_unparent",
     "cmd_projects_list", "cmd_projects_get", "cmd_projects_add", "cmd_projects_rm",
     "cmd_projects_edit", "cmd_tags_list", "cmd_tags_add", "cmd_tags_rm",
     "cmd_tags_edit", "cmd_tags_merge", "cmd_folders_list", "cmd_folders_add",
     "cmd_folders_rm", "cmd_folders_rename", "cmd_columns_list", "cmd_columns_add",
     "cmd_columns_edit", "cmd_columns_rm"}

LocalHandlers == {"cmd_auth_status", "cmd_auth_clear"}

IdleCmd ==
    [handler |-> "none", pc |-> "idle", stdout |-> <<>>, exit |-> -1,
     api |-> FALSE, closes |-> 0, exc |-> "", at |-> "none"]

CmdInit == cmd = IdleCmd /\ tcall = [pc |-> "off"]

\* output(data): one line of JSON
output(c) == [c EXCEPT !.stdout = Append(@, "json")]

\* error(msg): one line {"error": msg}, then sys.exit(1)
error(c) == [c EXCEPT !.stdout = Append(@, "error"), !.exit = 1, !.pc = "exited"]

\* a handler without finally: an exception of the body leaves it at once
leave_unclosed(c, e, at) == [c EXCEPT !.exc = e, !.at = at, !.pc = "main_except"]

\* an exception inside the try of a handler runs the finally clause first
leave_try(c, e, at) == [c EXCEPT !.exc = e, !.at = at, !.pc = "finally"]

\* main: args.func(args) for a parsed command
main_calls_handler ==
    /\ cmd.pc = "idle"
    /\ \E h \in ApiHandlers \cup LocalHandlers :
          cmd' = [cmd EXCEPT !.handler = h,
                             !.pc = IF h \in ApiHandlers THEN "get_api" ELSE "local"]
    /\ UNCHANGED <<tcall, notSurf>>

\* api = await get_api()
get_api_returns ==
    /\ cmd.pc = "get_api"
    /\ cmd' = [cmd EXCEPT !.api = TRUE, !.pc = "body"]
    /\ UNCHANGED <<tcall, notSurf>>

\* get_api raises: no credentials, or the login fails
get_api_raises ==
    /\ cmd.pc = "get_api"
    /\ cmd' = [cmd EXCEPT !.exc = "authentication failed", !.at = "get_api",
                           !.pc = "main_except"]
    /\ UNCHANGED <<tcall, notSurf>>

\* the awaited verb of the api returns
body_returns ==
    /\ cmd.pc = "body"
    /\ cmd' = [cmd EXCEPT !.pc = "output"]
    /\ UNCHANGED <<tcall, notSurf>>

\* the awaited verb of the api raises
body_raises ==
    /\ cmd.pc = "body"
    /\ cmd' = leave_try(cmd, "upstream error", "body")
    /\ UNCHANGED <<tcall, notSurf>>

\* output(fmt_...(...)) prints its line
output_prints ==
    /\ cmd.pc = "output"
    /\ cmd' = [output(cmd) EXCEPT !.pc = "finally"]
    /\ UNCHANGED <<tcall, notSurf>>

\* fmt_...(...) or json.dumps raises before anything is printed
output_raises ==
    /\ cmd.pc = "output"
    /\ cmd' = leave_try(cmd, "os error", "output")
    /\ UNCHANGED <<tcall, notSurf>>

\* finally: await api.close() returns; a pending exception goes on to main
close_returns ==
    /\ cmd.pc = "finally"
    /\ cmd' = [cmd EXCEPT !.closes = @ + 1,
                           !.pc = IF cmd.exc # "" THEN "main_except" ELSE "return"]
    /\ UNCHANGED <<tcall, notSurf>>

\* finally: await api.close() raises (self._v2.close() is an awaited call of
\* the transport); its exception is the one that reaches main
close_raises ==
    /\ cmd.pc = "finally"
    /\ cmd' = [cmd EXCEPT !.closes = @ + 1, !.exc = "upstream error",
                           !.at = "close", !.pc = "main_except"]
    /\ UNCHANGED <<tcall, notSurf>>

\* cmd_auth_status, cmd_auth_clear: no api; then output
local_returns ==
    /\ cmd.pc = "local"
    /\ cmd' = [output(cmd) EXCEPT !.pc = "return"]
    /\ UNCHANGED <<tcall, notSurf>>

\* cmd_auth_clear: AUTH_CACHE_FILE.unlink() raises; load_auth_cache of
\* cmd_auth_status catches everything
local_raises ==
    /\ cmd.pc = "local"
    /\ cmd.handler = "cmd_auth_clear"
    /\ cmd' = [cmd EXCEPT !.exc = "os error", !.at = "local", !.pc = "main_except"]
    /\ UNCHANGED <<tcall, notSurf>>

\* main: return 0, and cli_main: sys.exit(main())
main_returns ==
    /\ cmd.pc = "return"
    /\ cmd' = [cmd EXCEPT !.exit = 0, !.pc = "exited"]
    /\ UNCHANGED <<tcall, notSurf>>

\* main: except Exception as e: error(str(e))
main_except ==
    /\ cmd.pc = "main_except"
    /\ cmd' = error(cmd)
    /\ UNCHANGED <<tcall, notSurf>>

CmdNext ==
    \/ main_calls_handler
    \/ get_api_returns
    \/ get_api_raises
    \/ body_returns
    \/ body_raises
    \/ output_prints
    \/ output_raises
    \/ close_returns
    \/ close_raises
    \/ local_returns
    \/ local_raises
    \/ main_returns
    \/ main_except

\* the surfaces at rest, in the specifications of the other parts
SurfOff == tcall = [pc |-> "off"] /\ cmd = [pc |-> "off"]

-----------------------------------------------------------------------------
Init == FacadeInit /\ TruncOff /\ CacheOff /\ ListOff /\ SurfOff

Next == \E r \in SeqReqs : ReqStep(r)

-----------------------------------------------------------------------------
(***************************************************************************)
(* Specifications.                                                         *)
(***************************************************************************)
Spec == Init /\ [][Next]_vars

ItemsSpec == Init /\ [][ItemsNext]_vars

ItemsConcSpec == Init /\ [][ItemsConcNext]_vars

TruncInit == TruncStart /\ CacheOff /\ FacadeOff /\ ListOff /\ SurfOff

TruncSpec == TruncInit /\ [][TruncNext]_vars

CacheSeqInit == CacheInit /\ TruncOff /\ FacadeOff /\ ListOff /\ SurfOff

CacheSeqSpec == CacheSeqInit /\ [][CacheSeqNext]_vars

CacheConcSpec == CacheSeqInit /\ [][CacheConcNext]_vars

ListSpecInit == ListInit /\ TruncOff /\ CacheOff /\ FacadeOff /\ SurfOff

ListSpec == ListSpecInit /\ [][ListNext]_vars

SearchSpecInit == SearchInit /\ TruncOff /\ CacheOff /\ FacadeOff /\ SurfOff

SearchSpec == SearchSpecInit /\ [][SearchNext]_vars

ToolSpecInit == ToolInit /\ TruncOff /\ CacheOff /\ FacadeOff /\ ListOff

ToolSpec == ToolSpecInit /\ [][ToolNext]_vars

CmdSpecInit == CmdInit /\ TruncOff /\ CacheOff /\ FacadeOff /\ ListOff

CmdSpec == CmdSpecInit /\ [][CmdNext]_vars

-----------------------------------------------------------------------------
(***************************************************************************)
(* Claims about the size governor, checked under TruncSpec.                *)
(***************************************************************************)

\* C1: when the task list action has returned for a render longer than the
\* 25,000-character budget, the returned string is at most 25,000 characters
\* long, ends with the truncation notice, and what precedes the notice is a
\* prefix of the render.
C1_TruncationProperty ==
    (tphase = "returned" /\ tool = "tasks.list" /\ SLen(render) > CHARACTER_LIMIT) =>
        /\ SLen(response) <= CHARACTER_LIMIT
        /\ EndsWith(response, message)
        /\ IsPrefix(Take(response, SLen(response) - SLen(message)), render)

\* C1 witness: an over-budget render with a paragraph break inside the margin
\* has been truncated by the list action.
C1_Witness ==
    /\ tphase = "returned"
    /\ tool = "tasks.list"
    /\ SLen(render) > CHARACTER_LIMIT
    /\ rfind(render, 2, CHARACTER_LIMIT - TRUNCATE_MARGIN) > 0
    /\ response # render

\* C2: every string a tool-call action returns is at most 25,000 characters
\* long, and an over-budget render is returned only with the truncation notice.
C2_EveryResponseWithinBudget ==
    tphase = "returned" =>
        /\ SLen(response) <= CHARACTER_LIMIT
        /\ SLen(render) > CHARACTER_LIMIT => EndsWith(response, message)

-----------------------------------------------------------------------------
(***************************************************************************)
(* Claims about the session cache.  C3 to C6 are about the commands of one *)
(* user run one after the other and are checked under CacheSeqSpec; C7 is  *)
(* about two processes and is checked under CacheConcSpec.                 *)
(***************************************************************************)

\* C3: when get_api found a document with an acceptable v2_session and an age
\* under the TTL in the cache file, it returns with that session, without a
\* login and without opening the file for writing; when the document it found
\* was older than the TTL, load_auth_cache returned None, exactly one login was
\* made (the credentials being set), and when get_api returns the file holds
\* the new session with a cached_at taken during this get_api.
C3_SessionAcquisition ==
    \A p \in Procs :
        LET pr == proc[p]
            found == pr.cmd = "api" /\ pr.seen # NoDoc
            ended == pr.pc \in {"ready", "idle"}
        IN  /\ (found /\ pr.seen.ok /\ pr.seenAge < SESSION_TTL /\ ended) =>
                  /\ pr.cache = pr.seen
                  /\ pr.session = pr.seen.tok
                  /\ pr.logins = 0
                  /\ ~pr.wrote
            /\ (found /\ pr.seenAge > SESSION_TTL /\ pr.creds /\ ended) =>
                  /\ pr.cache = NoDoc
                  /\ pr.logins = 1
            /\ (found /\ pr.seenAge > SESSION_TTL /\ pr.creds /\ pr.pc = "ready") =>
                  /\ file.exists
                  /\ Parsable(file.content)
                  /\ file.content[1].doc.tok = pr.session
                  /\ pr.session # pr.seen.tok
                  /\ file.content[1].doc.at >= pr.started
                  /\ file.content[1].doc.at <= now

\* C3 witness: get_api has returned after finding a document older than the
\* TTL, having logged in once.
C3_Witness ==
    \E p \in Procs :
        /\ proc[p].pc = "ready"
        /\ proc[p].seen # NoDoc
        /\ proc[p].seen.ok
        /\ proc[p].seenAge > SESSION_TTL
        /\ proc[p].logins = 1

\* C4: once a request has failed with an authentication error on a session
\* token, no later get_api returns with that token taken from the cache.
C4_RejectedTokenNotReused ==
    \A p \in Procs :
        (proc[p].pc = "ready" /\ proc[p].logins = 0) => proc[p].session \notin rejected

\* C5: when auth clear ends with {"ok": true} the cache file does not exist;
\* clearing without a cache file succeeds and leaves the file system as it is;
\* no get_api returns with a cached token that was in the file when it was
\* cleared; and a get_api that finds no file goes on to a login when username
\* and password are set and raises otherwise.
C5_ClearForcesLogin ==
    [][ \A p \in Procs :
          LET a == proc[p]
              b == proc'[p]
          IN  /\ (a.cmd = "clear" /\ a.pc # "idle" /\ b.pc = "idle" /\ b.result = "ok")
                    => ~file'.exists
              /\ (a.pc = "clear_exists" /\ b # a /\ ~file.exists)
                    => (b.pc = "idle" /\ b.result = "ok" /\ file' = file)
              /\ (b.pc = "ready" /\ b.logins = 0) => b.session \notin cleared'
              /\ (a.pc \in {"load_exists", "load_read"} /\ b # a /\ ~file.exists)
                    => IF a.creds THEN b.pc = "authenticate"
                       ELSE b.pc = "idle" /\ b.result = "ValueError"
              /\ (a.pc = "authenticate" /\ b.pc # "authenticate")
                    => b.logins = a.logins + 1
      ]_vars

\* C5 witness: after a clear that removed a cached token, a get_api with
\* credentials found no file and is about to log in.
C5_Witness ==
    \E p \in Procs :
        /\ cleared # {}
        /\ ~file.exists
        /\ proc[p].pc = "authenticate"
        /\ proc[p].cache = NoDoc

\* C6: whenever the cache file exists and holds session-token data, its
\* permissions are owner read/write only.
C6_CacheFileOwnerOnly ==
    (file.exists /\ TokensIn(file) # {}) => file.mode = OwnerRW

\* C7: whenever no process is inside save_auth_cache and the cache file has
\* content, the content is the whole document one process wrote, and
\* json.load gives that document back.
C7_LastWriterWins ==
    ( /\ \A p \in Procs : proc[p].pc \notin {"save_open", "save_write", "save_chmod"}
      /\ file.exists
      /\ file.content # <<>> ) =>
        /\ Parsable(file.content)
        /\ \A i \in 1..Len(file.content) : file.content[i].doc = file.content[1].doc

(***************************************************************************)
(* Claims about the facade, checked under Spec.                            *)
(***************************************************************************)
\* the calls of one kind in a request's log, in order
CallsOf(rq, ops) == SelectSeq(rq.log, LAMBDA c : c.op \in ops)

\* C8: when create_project, create_folder, create_tag or create_column has
\* ended, its mutating call having succeeded and the follow-up listing having
\* been fetched without the new id (the name, for tags) in it, it has raised
\* a not-found error and returned no entity.
C8_CreateNotListedFails ==
    \A r \in ReqIds :
        LET rq == req[r]
        IN  (/\ rq.verb = "create_entity"
             /\ rq.pc = "done"
             /\ rq.mutated
             /\ rq.relisted
             /\ rq.new_id \notin rq.listing)
            => (/\ rq.outcome = "raised"
                /\ rq.error = "ValueError: Project not found"
                /\ rq.ret = <<>>)

\* C9: in create_tasks the create calls are issued for the titles in input
\* order, one per title, and none before the previous title is dealt with;
\* the results are in input order and are what is returned; once the
\* create or the fetch for title k has failed, the request has raised, every
\* task the upstream created for it still exists, its log holds nothing but
\* create and fetch calls, and no create call was issued for a title after k.
C9_CreateTasksSequentialNoRollback ==
    \A r \in ReqIds :
        LET rq == req[r]
            creates == CallsOf(rq, {"create_task"})
        IN  rq.verb = "create_tasks" =>
              /\ Len(creates) <= Len(rq.titles)
              /\ \A i \in 1..Len(creates) :
                    creates[i].title = rq.titles[i] /\ creates[i].pid = rq.pid
              /\ rq.outcome = "running" =>
                    Len(creates) = (IF rq.pc = "ct_get" THEN rq.k ELSE rq.k - 1)
              /\ Len(rq.idxs) = Len(rq.results)
              /\ \A j \in 1..Len(rq.results) :
                    /\ rq.results[j]["title"] = rq.titles[rq.idxs[j]]
                    /\ rq.results[j]["id"] = rq.made[j]
                    /\ j > 1 => rq.idxs[j - 1] < rq.idxs[j]
              /\ rq.outcome = "returned" =>
                    /\ rq.ret = rq.results
                    /\ Len(creates) = Len(rq.titles)
              /\ rq.failedAt # 0 =>
                    /\ rq.outcome = "raised"
                    /\ Len(creates) = rq.failedAt
                    /\ \A i \in 1..Len(rq.log) : rq.log[i].op \in {"create_task", "get_task"}
                    /\ \A i \in 1..Len(rq.made) : rq.made[i] \in DOMAIN upTasks

\* C9 witness: create_tasks was given three titles and failed at the second,
\* after the task for the first had been created and fetched.
C9_Witness ==
    \E r \in ReqIds :
        /\ req[r].verb = "create_tasks"
        /\ req[r].outcome = "raised"
        /\ Len(req[r].titles) = 3
        /\ req[r].failedAt = 2
        /\ Len(req[r].results) = 1
        /\ req[r].made[1] \in DOMAIN upTasks

\* C10: update_task issues the fetch, then at most one batch update, then the
\* re-fetch, and nothing else; the update list has exactly one element, whose
\* keys are id, projectId and the caller's fields, with the id, the fetched
\* project id and the caller's values; when it returns, it returns what the
\* re-fetch gave, and every field the caller omitted is upstream what the
\* first fetch saw.
C10_UpdateTaskPartial ==
    \A r \in ReqIds :
        LET rq == req[r]
            get == Call("get_task", rq.task_id, "", "", <<>>)
            batches == CallsOf(rq, {"batch_tasks"})
        IN  rq.verb = "update_task" =>
              /\ Len(rq.log) <= 3
              /\ Len(rq.log) >= 1 => rq.log[1] = get
              /\ Len(rq.log) >= 2 =>
                    /\ rq.log[2].op = "batch_tasks"
                    /\ Len(rq.log[2].update) = 1
                    /\ LET u == rq.log[2].update[1]
                       IN  /\ DOMAIN u = {"id", "projectId"} \cup DOMAIN rq.kwargs
                           /\ u["id"] = rq.task_id
                           /\ u["projectId"] = rq.task["projectId"]
                           /\ \A f \in DOMAIN rq.kwargs : u[f] = rq.kwargs[f]
              /\ Len(rq.log) = 3 => rq.log[3] = get
              /\ rq.outcome = "returned" =>
                    /\ Len(rq.log) = 3
                    /\ Len(batches) = 1
                    /\ rq.ret = <<upTasks[rq.task_id]>>
                    /\ \A f \in TaskFields \ DOMAIN rq.kwargs :
                          upTasks[rq.task_id][f] = rq.task[f]

\* C10 witness: update_task has returned after being given a title only; the
\* task has the new title and the content it had.
C10_Witness ==
    \E r \in ReqIds :
        /\ req[r].verb = "update_task"
        /\ req[r].outcome = "returned"
        /\ DOMAIN req[r].kwargs = {"title"}
        /\ req[r].task["title"] = "old"
        /\ req[r].ret[1]["title"] = "new"
        /\ req[r].ret[1]["content"] = "old"

(***************************************************************************)
(* Claims about the verbs over a list of ids, checked under ItemsSpec.     *)
(***************************************************************************)
\* C11: complete_tasks and abandon_tasks send nothing but fetches and at most
\* one batch update; the batch update comes after one answered fetch per
\* input id, in input order, and a request that returns has sent exactly one;
\* it carries one update per input id, in input order, each with that id, the
\* status Completed (Abandoned for abandon_tasks), a completion time that is
\* not empty, and the project id the fetch of that id returned.
C11_OneBatchAfterFetches ==
    \A r \in ReqIds :
        LET rq == req[r]
            n == Len(rq.ids)
            batches == CallsOf(rq, {"batch_tasks"})
        IN  rq.verb \in BatchVerbs =>
              /\ \A i \in 1..Len(rq.log) : rq.log[i].op \in {"get_task", "batch_tasks"}
              /\ Len(batches) <= 1
              /\ rq.outcome = "returned" => Len(batches) = 1
              /\ Len(batches) = 1 =>
                    /\ Len(rq.log) = n + 1
                    /\ rq.log[n + 1] = batches[1]
                    /\ Len(rq.fetched) = n
                    /\ \A i \in 1..n : rq.log[i].op = "get_task" /\ rq.log[i].id = rq.ids[i]
                    /\ Len(batches[1].update) = n
                    /\ \A i \in 1..n :
                          LET u == batches[1].update[i]
                          IN  /\ DOMAIN u = {"id", "projectId", "status", "completedTime"}
                              /\ u["id"] = rq.ids[i]
                              /\ u["status"] = (IF rq.verb = "complete_tasks"
                                                THEN COMPLETED ELSE ABANDONED)
                              /\ u["completedTime"] # ""
                              /\ u["projectId"] = rq.fetched[i]["projectId"]

\* C11 witness: complete_tasks has returned for two different tasks, and the
\* upstream has both as Completed.
C11_Witness ==
    \E r \in ReqIds :
        /\ req[r].verb = "complete_tasks"
        /\ req[r].outcome = "returned"
        /\ req[r].ids = <<"c1", "t1">>
        /\ upTasks["t1"]["status"] = COMPLETED
        /\ upTasks["c1"]["status"] = COMPLETED

\* C12: delete_tasks sends, for each id in input order, a fetch of that task
\* and then its delete, and nothing else; a delete is sent only after the
\* fetch of its id was answered and carries the project id that fetch
\* returned; and the request never has more than one call unanswered, so the
\* delete of one id is answered before the fetch of the next is sent.
C12_DeleteFetchThenDelete ==
    \A r \in ReqIds :
        LET rq == req[r]
        IN  rq.verb = "delete_tasks" =>
              /\ Len(rq.pending) <= 1
              /\ Len(rq.pending) = 1 => rq.pending[1] = rq.log[Len(rq.log)]
              /\ Len(rq.log) <= 2 * Len(rq.ids)
              /\ \A j \in 1..Len(rq.log) :
                    LET i == (j + 1) \div 2
                    IN  /\ rq.log[j].id = rq.ids[i]
                        /\ rq.log[j].k = i
                        /\ j % 2 = 1 => rq.log[j].op = "get_task"
                        /\ j % 2 = 0 =>
                              /\ rq.log[j].op = "delete_task"
                              /\ Len(rq.fetched) >= i
                              /\ rq.log[j].pid = rq.fetched[i]["projectId"]
              /\ rq.outcome = "returned" => Len(rq.log) = 2 * Len(rq.ids)

\* C12 witness: delete_tasks has returned for two tasks and the upstream has
\* neither any more.
C12_Witness ==
    \E r \in ReqIds :
        /\ req[r].verb = "delete_tasks"
        /\ req[r].outcome = "returned"
        /\ req[r].ids = <<"c1", "t1">>
        /\ Len(req[r].applied) = 2
        /\ DOMAIN upTasks = {}

\* the mutations a request has sent
MutationsOf(rq) == SelectSeq(rq.log, LAMBDA c : c.op \notin {"get_task", "batch_tasks"})

\* the upstream shows the effect of a mutation it applied
Shows(tasks, call) ==
    CASE call.op = "delete_task" -> call.id \notin DOMAIN tasks
      [] call.op = "move_task" -> tasks[call.id]["projectId"] = call.arg
      [] call.op = "update_task" -> tasks[call.id]["pinnedTime"] = call.arg
      [] call.op = "set_task_parent" -> tasks[call.id]["parentId"] = call.arg
      [] call.op = "unset_task_parent" -> tasks[call.id]["parentId"] = ""

\* the one mutation a verb sends
OpOf(verb) ==
    CASE verb = "delete_tasks" -> "delete_task"
      [] verb = "move_tasks" -> "move_task"
      [] verb = "pin_tasks" -> "update_task"
      [] verb = "set_task_parents" -> "set_task_parent"
      [] verb = "unset_task_parents" -> "unset_task_parent"

\* what C13 says of the mutations before the item the request ended at: the
\* upstream still shows each of them, and the request has sent nothing but
\* fetches and its own mutation
EarlierStay(rq) ==
    /\ \A i \in 1..Len(rq.applied) : Shows(upTasks, rq.applied[i])
    /\ \A i \in 1..(rq.failedAt - 1) :
          \E j \in 1..Len(rq.applied) : rq.applied[j].k = i
    /\ \A j \in 1..Len(rq.log) : rq.log[j].op \in {"get_task", OpOf(rq.verb)}

C14_UnsetParentChecked ==
    \A r \in ReqIds :
        LET rq == req[r]
            muts == MutationsOf(rq)
            n == Len(rq.fetched)
        IN  rq.verb = "unset_task_parents" =>
              /\ \A j \in 1..Len(muts) :
                    LET c == muts[j]
                    IN  /\ c.op = "unset_task_parent"
                        /\ c.k <= n
                        /\ rq.fetched[c.k]["parentId"] # ""
                        /\ c.id = rq.ids[c.k]
                        /\ c.pid = rq.fetched[c.k]["projectId"]
                        /\ c.arg = rq.fetched[c.k]["parentId"]
              /\ \A i \in 1..n :
                    rq.fetched[i]["parentId"] = "" =>
                        /\ i = n
                        /\ rq.outcome = "raised"
                        /\ rq.error = "ValueError: Task has no parent"
                        /\ rq.failedAt = i
                        /\ \A j \in 1..Len(muts) : muts[j].k # i
              /\ \A j \in 1..Len(rq.applied) :
                    /\ rq.applied[j].id \in DOMAIN upTasks
                    /\ upTasks[rq.applied[j].id]["parentId"] = ""

\* C14 witness: unset_task_parents was given a subtask and then a task
\* without a parent: the first has lost its parent, the request has ended
\* at the second with the error.
C14_Witness ==
    \E r \in ReqIds :
        /\ req[r].verb = "unset_task_parents"
        /\ req[r].ids = <<"c1", "t1">>
        /\ req[r].error = "ValueError: Task has no parent"
        /\ req[r].failedAt = 2
        /\ Len(req[r].applied) = 1
        /\ req[r].fetched[1]["parentId"] = "t1"
        /\ upTasks["c1"]["parentId"] = ""

C15_ToolWitness ==
    \E r \in ReqIds :
        /\ req[r].verb = "client_move_tasks"
        /\ req[r].outcome = "returned"
        /\ req[r].ids = <<"t1">>
        /\ req[r].froms = <<"p2">>
        /\ req[r].applied[1].pid = "p1"

\* C17: when the update action of the tool has been answered by the client
\* with some ids updated and some failed, its response lists exactly the
\* updated ids as updated, has an error entry for exactly the failed ids,
\* and counts no failed id among the updated tasks.
C17_UpdateReportsPerId ==
    \A r \in ReqIds :
        LET rq == req[r]
        IN  (/\ rq.verb = "tool_update"
             /\ rq.pc = "done"
             /\ rq.mutated
             /\ rq.result.id2error # {})
            => /\ rq.ret[1].updated_ids = rq.result.id2etag
               /\ rq.ret[1].errors = rq.result.id2error
               /\ rq.ret[1].count <= Cardinality(rq.result.id2etag)

(***************************************************************************)
(* C16 is about two requests at a time and is checked under ItemsConcSpec. *)
(***************************************************************************)
\* the project a call names for a task is the one the upstream has it in
Fresh(id, pid) == id \in DOMAIN upTasks => pid = upTasks[id]["projectId"]

\* C16: whenever update_task, move_tasks, delete_tasks or complete_tasks
\* sends a mutation, the project id the mutation names for a task is the one
\* the task has upstream at that moment.
C16_MutationSeesFreshProject ==
    [][ \A r \in ReqIds :
          LET a == req[r]
              b == req'[r]
              c == b.log[Len(b.log)]
          IN  (/\ b.verb \in {"update_task", "move_tasks", "delete_tasks", "complete_tasks"}
               /\ b.verb = a.verb
               /\ Len(b.log) = Len(a.log) + 1)
              => /\ c.op \in {"delete_task", "move_task"} => Fresh(c.id, c.pid)
                 /\ c.op = "batch_tasks" =>
                       \A i \in 1..Len(c.update) :
                           Fresh(c.update[i]["id"], c.update[i]["projectId"])
      ]_vars

\* request r is the only one that has started
Alone(r) == \A q \in ReqIds \ {r} : req[q].verb = "none"

\* C16 amended: whenever update_task, move_tasks, delete_tasks or
\* complete_tasks sends a mutation, the project id the mutation names for a
\* task is the one the request's own fetch of that task returned; it is the
\* one the task has upstream at that moment when no other request has
\* started.
C16_MutationCarriesOwnFetch ==
    [][ \A r \in ReqIds :
          LET a == req[r]
              b == req'[r]
              c == b.log[Len(b.log)]
          IN  (/\ b.verb \in {"update_task", "move_tasks", "delete_tasks", "complete_tasks"}
               /\ b.verb = a.verb
               /\ Len(b.log) = Len(a.log) + 1)
              => /\ c.op \in {"delete_task", "move_task"} =>
                       /\ c.id = b.ids[c.k]
                       /\ c.pid = b.fetched[c.k]["projectId"]
                       /\ Alone(r) => Fresh(c.id, c.pid)
                 /\ (c.op = "batch_tasks" /\ b.verb = "complete_tasks") =>
                       /\ Len(c.update) = Len(b.ids)
                       /\ \A i \in 1..Len(c.update) :
                             /\ c.update[i]["id"] = b.ids[i]
                             /\ c.update[i]["projectId"] = b.fetched[i]["projectId"]
                             /\ Alone(r) => Fresh(b.ids[i], c.update[i]["projectId"])
                 /\ (c.op = "batch_tasks" /\ b.verb = "update_task") =>
                       /\ c.update[1]["id"] = b.task_id
                       /\ c.update[1]["projectId"] = b.task["projectId"]
                       /\ Alone(r) => Fresh(b.task_id, c.update[1]["projectId"])
      ]_vars

\* C16 witness: one request has fetched a task in project p1, another has
\* moved it to p2, and the first has then sent its delete naming p1.
C16_Witness ==
    /\ req["r1"].verb = "delete_tasks"
    /\ req["r2"].verb = "move_tasks"
    /\ req["r1"].ids = <<"t1">>
    /\ req["r2"].ids = <<"t1">>
    /\ req["r2"].outcome = "returned"
    /\ "t1" \in DOMAIN upTasks
    /\ upTasks["t1"]["projectId"] = "p2"
    /\ Len(req["r1"].log) = 2
    /\ req["r1"].log[2].op = "delete_task"
    /\ req["r1"].log[2].pid = "p1"

-----------------------------------------------------------------------------
(***************************************************************************)
(* Claims about listing the active tasks, checked under ListSpec.          *)
(***************************************************************************)

\* tag membership: some tag of the task equals the requested one, case aside
TagMatches(t, q) == \E tag \in t.tags : Lower(tag) = Lower(q.tag)

\* overdue: a due_date strictly before the current instant
Overdue(t) == t.due_date.set /\ Before(t.due_date, CLOCK)

\* date range: the date of the task, when it has one, lies in [from, to];
\* `days` stands for from_date on the command line only
RangeFrom(q) == IF surface = "cli" THEN cli_from_date(q) ELSE q.from_date

InRange(t, q) ==
    \/ ~task_date(t).set
    \/ /\ RangeFrom(q) # 0 => DatePrefix(task_date(t)) >= RangeFrom(q)
       /\ q.to_date # 0 => DatePrefix(task_date(t)) <= q.to_date

\* the task is Active and satisfies every supplied predicate
Satisfies(t, q) ==
    /\ t.status = ACTIVE
    /\ q.project_id # "" => t.project_id = q.project_id
    /\ q.column_id # "" => t.column_id = q.column_id
    /\ q.tag # "" => TagMatches(t, q)
    /\ q.priority # "" => t.priority = pmap(q.priority)
    /\ q.due_today => t.due_date.set /\ Date(t.due_date) = Date(CLOCK)
    /\ q.overdue => Overdue(t)
    /\ InRange(t, q)

\* what the surface that answered returns for other parameters
Listed(sf, tasks, q, n) ==
    IF sf = "cli" THEN list_tasks(tasks, q, n) ELSE tool_list(tasks, q, n)

Answered == surface \in {"cli", "tool"}

\* C18: a listing returns exactly the tasks of the sync that are Active and
\* satisfy every supplied predicate (project, column, tag, priority,
\* due-today, overdue, date range), in sync order, cut to its first `limit`
\* elements when a limit is supplied.
C18_ListIsFilteredHead ==
    Answered =>
        LET filtered == SelectSeq(sync, LAMBDA t : Satisfies(t, query))
        IN  listed = IF limit # 0 THEN FirstN(filtered, limit) ELSE filtered

\* C19: on both surfaces the tag filter keeps, of the tasks the listing
\* returns without it, exactly those with a tag equal to the requested tag
\* case-insensitively.
C19_TagFilterCaseInsensitive ==
    (Answered /\ query.tag # "" /\ limit = 0) =>
        listed = SelectSeq(Listed(surface, sync, [query EXCEPT !.tag = ""], 0),
                            LAMBDA t : TagMatches(t, query))

\* C20: on both surfaces the overdue filter keeps, of the tasks the listing
\* returns without it, exactly those whose due_date is strictly before the
\* current instant: due earlier today is overdue, due now or later is not.
C20_OverdueBeforeNow ==
    (Answered /\ query.overdue /\ limit = 0) =>
        listed = SelectSeq(Listed(surface, sync, [query EXCEPT !.overdue = FALSE], 0),
                            LAMBDA t : Overdue(t))

-----------------------------------------------------------------------------
(***************************************************************************)
(* Claims about searching, checked under SearchSpec.                       *)
(***************************************************************************)

\* the text has the query inside it, case aside
HasInside(x, q) ==
    LET text == IF x.null THEN <<>> ELSE x.s
    IN  \E i \in 0..Len(text), j \in 0..Len(text) :
            /\ i <= j
            /\ j - i = Len(q)
            /\ \A k \in 1..Len(q) : LowerChar(text[i + k]) = LowerChar(q[k])

\* C21: a search returns exactly the Active tasks of the sync whose title or
\* content contains the query as a case-insensitive substring, a null title
\* or content counting as the empty string, in sync order, and its only
\* upstream call is the sync.
C21_SearchIsClientSide ==
    surface = "search" =>
        /\ listed = SelectSeq(sync, LAMBDA t :
                         /\ t.status = ACTIVE
                         /\ HasInside(t.title, needle) \/ HasInside(t.content, needle))
        /\ upcalls = <<"sync">>

\* a search that matched through the content only, in another case, between a
\* task that does not match and a completed one
C21_Witness ==
    /\ surface = "search"
    /\ needle = <<"a">>
    /\ Len(sync) = 2
    /\ Len(listed) = 1
    /\ listed[1].content = Text(<<"A">>)
    /\ listed[1].title = Text(<<"b">>)
    /\ sync[1].status = COMPLETED

-----------------------------------------------------------------------------
(***************************************************************************)
(* Claims about the tool-call surface, checked under ToolSpec.             *)
(***************************************************************************)

\* the hint the claim asks for, by the category of the exception
HintFor(error_type) ==
    CASE has("Authentication", error_type) ->
             <<"Check TICKTICK_* environment variables.">>
      [] ~has("Authentication", error_type) /\ has("NotFound", error_type) ->
             <<"Verify the ID exists.">>
      [] /\ ~has("Authentication", error_type)
         /\ ~has("NotFound", error_type)
         /\ has("Validation", error_type) ->
             <<"Check parameters.">>
      [] OTHER -> <<"Type:">> \o error_type

\* C22: no tool call propagates an exception; a call that has returned has
\* returned a string, and when a step of its body raised, malformed per-item
\* dicts included, the string is an error message with the hint of the
\* category of the exception (credentials, the id, the parameters, else the
\* type name).
C22_ToolsCatchEverything ==
    /\ tcall.pc # "propagated"
    /\ tcall.pc = "returned" =>
          /\ tcall.response.kind = "str"
          /\ tcall.exc # NoExc =>
                /\ tcall.response.text = "**Error**"
                /\ tcall.response.error # ""
                /\ tcall.response.suggestion = HintFor(tcall.exc)

\* a malformed per-item dict of ticktick_tasks was answered with an error
\* message naming KeyError
C22_Witness ==
    /\ tcall.pc = "returned"
    /\ tcall.tool = "ticktick_tasks"
    /\ tcall.at = "items"
    /\ tcall.exc = <<"Key", "Error">>
    /\ tcall.response.suggestion = <<"Type:", "Key", "Error">>

-----------------------------------------------------------------------------
(***************************************************************************)
(* Claims about the command-line surface, checked under CmdSpec.           *)
(***************************************************************************)

\* C23: a command that has ended without an exception of its handler has
\* printed exactly one line of JSON and has exit status 0; one whose handler
\* raised has printed exactly one line, the error line, with no success line
\* before it, and has a non-zero exit status.
C23_OneLineAndExitStatus ==
    cmd.pc = "exited" =>
        IF cmd.exc = ""
        THEN cmd.stdout = <<"json">> /\ cmd.exit = 0
        ELSE cmd.stdout = <<"error">> /\ cmd.exit # 0

\* C30: a command that has ended after get_api returned an api has called
\* its close() exactly once, on the success path and on the paths where the
\* verb or the output raised; close() is never called twice, nor without an
\* api.
C30_CloseExactlyOnce ==
    /\ cmd.pc \in {"return", "main_except", "exited"} /\ cmd.api => cmd.closes = 1
    /\ cmd.pc # "off" => cmd.closes <= 1 /\ (cmd.closes = 1 => cmd.api)

\* the output of a command raised, its api was closed, the error line printed
C30_Witness ==
    /\ cmd.pc = "exited"
    /\ cmd.handler = "cmd_tasks_done"
    /\ cmd.api
    /\ cmd.at = "output"
    /\ cmd.closes = 1
    /\ cmd.stdout = <<"error">>

-----------------------------------------------------------------------------
(***************************************************************************)
(* Further claims about the session cache, checked under CacheSeqSpec.     *)
(***************************************************************************)

\* C25: a get_api that found a parsable document in the cache file got it
\* from load_auth_cache iff its age was strictly under the TTL; at an age of
\* exactly the TTL or more the cache counted as absent, and with credentials
\* get_api logged in again.
C25_CacheValidStrictlyUnderTtl ==
    \A p \in Procs :
        LET pr == proc[p]
        IN  (pr.cmd = "api" /\ pr.seen # NoDoc /\ pr.pc \in {"ready", "idle"}) =>
                IF pr.seenAge < SESSION_TTL
                THEN pr.cache = pr.seen
                ELSE pr.cache = NoDoc /\ (pr.creds => pr.logins = 1)

-----------------------------------------------------------------------------
(***************************************************************************)
(* A further claim about the size governor, checked under TruncSpec.       *)
(***************************************************************************)

\* how many characters of block k of s lie at the indexes lo .. hi - 1
Overlap(s, k, lo, hi) ==
    LET from == IF Offset(s, k) >= lo THEN Offset(s, k) ELSE lo
        to == IF Offset(s, k) + s[k].n <= hi THEN Offset(s, k) + s[k].n ELSE hi
    IN  IF to > from THEN to - from ELSE 0

\* w line breaks in a row lie somewhere at the indexes lo .. hi - 1 of s
BreakWithin(s, w, lo, hi) ==
    \E k \in 1..Len(s) : s[k].ch = NL /\ Overlap(s, k, lo, hi) >= w

\* p is the last index before position `before` at which w line breaks start
LastBreak(s, w, p, before) ==
    /\ BreakWithin(s, w, p, p + w)
    /\ p + w <= before
    /\ ~BreakWithin(s, w, p + 1, before)

\* C24: truncate_response on an over-budget string cuts at the last paragraph
\* break before position 24,500; without one, at the last line break before
\* 24,500; without one, at exactly 24,500; the notice follows the cut in all
\* three cases.
C24_CutAtLastBreak ==
    (tphase = "returned" /\ tool = "tasks.list" /\ SLen(render) > CHARACTER_LIMIT) =>
        LET cut == SLen(response) - SLen(message)
            before == CHARACTER_LIMIT - TRUNCATE_MARGIN
        IN  /\ cut >= 0
            /\ response = Concat(Take(render, cut), message)
            /\ IF BreakWithin(render, 2, 0, before)
               THEN LastBreak(render, 2, cut, before)
               ELSE IF BreakWithin(render, 1, 0, before)
               THEN LastBreak(render, 1, cut, before)
               ELSE cut = before

\* an over-budget render with single line breaks only before the margin, two
\* of them, has been cut at the later one
C24_Witness ==
    /\ tphase = "returned"
    /\ tool = "tasks.list"
    /\ SLen(render) > CHARACTER_LIMIT
    /\ ~BreakWithin(render, 2, 0, CHARACTER_LIMIT - TRUNCATE_MARGIN)
    /\ find(render, 1, CHARACTER_LIMIT - TRUNCATE_MARGIN) >= 0
    /\ find(render, 1, CHARACTER_LIMIT - TRUNCATE_MARGIN)
          < SLen(response) - SLen(message)
    /\ SLen(response) - SLen(message) < CHARACTER_LIMIT - TRUNCATE_MARGIN

-----------------------------------------------------------------------------
(***************************************************************************)
(* A further claim about listing, checked under ListSpec.                  *)
(***************************************************************************)

\* the first 10 characters of created_time, or of modified_time without it,
\* lie in [from_date, to_date]; a task with neither is kept
InDateRange(t, q) ==
    LET stamp == IF t.created_time.set THEN t.created_time ELSE t.modified_time
    IN  \/ ~stamp.set
        \/ /\ q.from_date # 0 => DatePrefix(stamp) >= q.from_date
           /\ q.to_date # 0 => DatePrefix(stamp) <= q.to_date

\* C26: on both surfaces a listing with from_date and/or to_date keeps, of
\* the tasks it returns without them, exactly those whose creation date
\* (modification date without one) lies in the range, and those with neither
\* date; no task outside the range is returned.
C26_DateRangeApplied ==
    (/\ Answered
     /\ query.from_date # 0 \/ query.to_date # 0
     /\ query.days = 0
     /\ limit = 0) =>
        listed = SelectSeq(Listed(surface, sync,
                                  [query EXCEPT !.from_date = 0, !.to_date = 0], 0),
                           LAMBDA t : InDateRange(t, query))

\* C27: when the fetch of an input id of complete_tasks or abandon_tasks has
\* failed, at whatever position of the list, the request has raised, it has
\* sent no batch update, the upstream has applied nothing of it, and every
\* task of the upstream has the status it had before the request.
C27_FetchFailureSendsNoBatch ==
    \A r \in ReqIds :
        LET rq == req[r]
        IN  (rq.verb \in BatchVerbs /\ rq.failedAt \in 1..Len(rq.ids)) =>
              /\ rq.outcome = "raised"
              /\ CallsOf(rq, {"batch_tasks"}) = <<>>
              /\ rq.applied = <<>>
              /\ \A id \in DOMAIN upTasks :
                    /\ upTasks[id]["status"] = Unset("status")
                    /\ upTasks[id]["completedTime"] = Unset("completedTime")

\* C27 witness: complete_tasks over three ids has fetched the first two and
\* failed at the fetch of the last.
C27_Witness ==
    \E r \in ReqIds :
        /\ req[r].verb = "complete_tasks"
        /\ req[r].ids = <<"c1", "t1", "t2">>
        /\ req[r].failedAt = 3
        /\ Len(req[r].fetched) = 2
        /\ Len(req[r].updates) = 2
        /\ req[r].outcome = "raised"

\* C28: whenever create_tasks has returned, the list it returned holds one
\* entity per input title: as many entities as titles, the entity at place
\* i being the one created for title i.
C28_OneEntityPerTitle ==
    \A r \in ReqIds :
        LET rq == req[r]
        IN  (rq.verb = "create_tasks" /\ rq.outcome = "returned") =>
              /\ Len(rq.ret) = Len(rq.titles)
              /\ \A i \in 1..Len(rq.ret) : rq.idxs[i] = i

\* C29: a process whose load_auth_cache read a cache file that did not hold
\* the whole text of one document (truncated by a writer's open, or written
\* over in part) has no cached session: no exception of the read has left
\* get_api, the process has gone on to log in when the credentials are set
\* and has ended with the error of the missing credentials otherwise; and
\* the document load_auth_cache returned, when it returned one, is the one
\* document whose whole text the file held.
C29_PartialFileIsAbsent ==
    \A p \in Procs :
        LET pr == proc[p]
            partial == pr.opened.exists /\ ~Parsable(pr.opened.content)
        IN  /\ (pr.cmd = "api" /\ partial) =>
                  /\ pr.cache = NoDoc
                  /\ pr.result \notin {"JSONDecodeError"}
                  /\ IF pr.creds THEN pr.pc = "authenticate" \/ pr.logins = 1
                     ELSE pr.pc = "idle" /\ pr.result = "ValueError"
            /\ (pr.cmd = "api" /\ pr.cache # NoDoc) =>
                  /\ Parsable(pr.opened.content)
                  /\ pr.cache = pr.opened.content[1].doc

\* C29 witness: a process read the file another process had truncated and
\* not written yet, and has logged in.
C29_Witness ==
    \E p \in Procs :
        /\ proc[p].raced
        /\ proc[p].opened.exists
        /\ proc[p].opened.content = <<>>
        /\ proc[p].cache = NoDoc
        /\ proc[p].logins = 1
        /\ proc[p].session # 0

==============================================================================
